---- MODULE Spec2Model ----
(***************************************************************************)
(* Model of trtc_asr.speech_recognizer.SpeechRecognizer: one real-time     *)
(* recognition session driven by caller coroutines (start / write / stop) *)
(* and by the background receive task (_read_loop), on one asyncio event   *)
(* loop.  A step of the model is the code a coroutine runs between two     *)
(* suspension points (await), which asyncio executes without interleaving. *)
(* The transport (websockets connection), the server and the timers are    *)
(* the environment: sends, closes and connects complete or fail, timeouts  *)
(* fire, the server sends messages or closes, all nondeterministically.    *)
(* Under Spec the listener's callbacks return normally; under ListenerSpec  *)
(* they may raise.  Caller coroutines are not cancelled from outside.  A   *)
(* connection carries its frames in the order the sends were issued, and a *)
(* send that failed or timed out is taken to have put no frame on the      *)
(* wire.                                                                   *)
(* SessionsSpec models several sessions started with one Credential,       *)
(* SigSpec the query-string builder of trtc_asr.signature, and HttpSpec    *)
(* the calls of the two HTTP clients; PollSpec models the polling of       *)
(* FileRecognizer.wait_for_result_with_interval.                           *)
(***************************************************************************)
EXTENDS Integers, Sequences, FiniteSets, TLC

\* ---- bounds of the model ----
NumCallers == 2      \* caller coroutines that may call start/write/stop
MaxWrites == 2       \* write() calls that reach the transport send
MaxMsgs == 2         \* inbound messages the server delivers
NumSessions == 3     \* recognizers constructed with the same Credential
MaxPolls == 3        \* status queries of one wait_for_result_with_interval call
MaxClock == 4        \* largest reading of time.monotonic()

\* ---- _State (IntEnum, compared with >=) ----
IDLE == 0
STARTING == 1
RUNNING == 2
STOPPING == 3
STOPPED == 4

\* ---- error codes (errors.py) ----
ERR_INVALID_PARAM == 1001
ERR_CONNECT_FAILED == 1002
ERR_WRITE_FAILED == 1003
ERR_READ_FAILED == 1004
ERR_AUTH_FAILED == 1005
ERR_TIMEOUT == 1006
ERR_SERVER_ERROR == 1007
ERR_ALREADY_STARTED == 1008
ERR_NOT_STARTED == 1009
ERR_ALREADY_STOPPED == 1010

None == 0            \* self._ws / self._read_task unset; a call that did not raise
RawException == 1    \* a call raised an exception that is no ASRError
SliceAbsent == 9     \* "result"/"slice_type" missing from the decoded JSON object
ServerCode == 4002   \* some non-zero result code reported by the server

Callers == 1..NumCallers

VARIABLES
    state,      \* self._state
    ws,         \* self._ws: None or the index of a connection in conns
    read_task,  \* self._read_task: None or the index of a task in tasks
    user_sig,   \* self._credential.user_sig: "" (none yet) | "signed"
    conns,      \* transport: every connection opened, [status, frames, closes]
    tasks,      \* every receive task created, [pc, it, cl, cancel, outcome]
    pc,         \* per caller: where its call in progress is suspended
    call,       \* per caller: its call in progress, NoCall between calls
    last,       \* the call that finished in the step just taken, else NoCall
    nwrites,    \* write() calls that reached the send
    nmsgs,      \* inbound messages delivered so far
    cbs,        \* listener callbacks invoked in the step just taken, in order
    msg,        \* the inbound message handled in the step just taken, else NoMsg
    listener,   \* the caller's listener: "returns" | "raises" (callbacks may raise)
    sessions,   \* sessions sharing one Credential (SessionsSpec)
    sig,        \* a SignatureParams instance and the query built from it (SigSpec)
    http        \* one call of an HTTP client (HttpSpec)

\* The variables of the streaming session.
svars == <<state, ws, read_task, user_sig, conns, tasks, pc, call, last,
           nwrites, nmsgs, cbs, msg>>

\* The variables the streaming session never assigns.
others == <<listener, sessions, sig, http>>

vars == <<state, ws, read_task, user_sig, conns, tasks, pc, call, last,
          nwrites, nmsgs, cbs, msg, listener, sessions, sig, http>>

\* A call: the operation, the state and the handle it found, what it is
\* suspended on (arg), how its send ended ("none" | "ok" | "fail"), how its
\* wait for the receive task ended ("none" | "done" | "timeout"), and the
\* code of the ASRError it raised (None: it returned).
NoCall == [op |-> "none", st0 |-> IDLE, ws0 |-> None, arg |-> None,
           sent |-> "none", wait |-> "none", err |-> None]

NewCall(op, s, w) == [op |-> op, st0 |-> s, ws0 |-> w, arg |-> None,
                      sent |-> "none", wait |-> "none", err |-> None]

\* Caller c's call r is over: it returned (e = None) or raised ASRError(e).
Return(c, r, e) ==
    /\ last' = [r EXCEPT !.err = e, !.arg = None]
    /\ call' = [call EXCEPT ![c] = NoCall]
    /\ pc' = [pc EXCEPT ![c] = "idle"]

\* Caller c's call r suspends at `where`.
Suspend(c, r, where) ==
    /\ call' = [call EXCEPT ![c] = r]
    /\ pc' = [pc EXCEPT ![c] = where]
    /\ last' = NoCall

\* No inbound message was handled in the step.
NoMsg == [kind |-> "none", code |-> 0, slice |-> 0, final |-> 0]

\* The session after construction.
InitSession ==
    /\ state = IDLE
    /\ ws = None
    /\ read_task = None
    /\ user_sig = ""
    /\ conns = <<>>
    /\ tasks = <<>>
    /\ pc = [c \in Callers |-> "idle"]
    /\ call = [c \in Callers |-> NoCall]
    /\ last = NoCall
    /\ nwrites = 0
    /\ nmsgs = 0
    /\ cbs = <<>>
    /\ msg = NoMsg

\* The other components are not in use.
InitOthers ==
    /\ sessions = <<>>
    /\ sig = <<>>
    /\ http = <<>>

Init ==
    /\ InitSession
    /\ listener = "returns"
    /\ InitOthers

\* ------------------------------------------------------------------------
\* _close(): closes self._ws if there is one.  Issuing ws.close() is the part
\* before the await (the handle is read, the close is started); the handle is
\* set to None only when the close has completed.
\* ------------------------------------------------------------------------
CloseIssued(k) == [conns EXCEPT ![k].closes = @ + 1]

CloseCompleted(k) ==
    [conns EXCEPT ![k].status = IF @ = "open" THEN "closed_ok" ELSE @]

\* ------------------------------------------------------------------------
\* start()
\* ------------------------------------------------------------------------
StartRejected_OnlyRunning(s) == s = RUNNING

gen_user_sig_Empty == ""

\* usersig.gen_user_sig when it does not raise: the signed token.
gen_user_sig == "signed"

StartRejected_Restartable(s) == s # IDLE /\ s # STOPPED

StartRejected(s) == s # IDLE

\* start() up to its first await: the state check, STARTING, and the
\* synchronous head of _connect (token signing when the credential has none).
StartCall(c) ==
    /\ pc[c] = "idle"
    /\ IF StartRejected(state)
       THEN /\ Return(c, NewCall("start", state, ws), ERR_ALREADY_STARTED)
            /\ UNCHANGED <<state, user_sig>>
       ELSE \/ \* gen_user_sig raises: AuthFailed, state back to IDLE
               /\ user_sig = ""
               /\ Return(c, NewCall("start", state, ws), ERR_AUTH_FAILED)
               /\ UNCHANGED <<state, user_sig>>
            \/ \* token present or signed now; suspend in websockets connect
               /\ state' = STARTING
               /\ user_sig' = IF user_sig = "" THEN gen_user_sig ELSE user_sig
               /\ Suspend(c, NewCall("start", state, ws), "start_connect")
    /\ UNCHANGED <<ws, read_task, conns, tasks, nwrites, nmsgs>>
    /\ cbs' = <<>>
    /\ msg' = NoMsg
    /\ UNCHANGED others

NewTask == [pc |-> "created", it |-> None, cl |-> None, cancel |-> FALSE,
            outcome |-> "none"]

\* Outbound wire frames: a binary audio chunk (the n-th accepted write) and the
\* textual control frame {"type": "end"}.
AudioFrame(n) == [type |-> "binary", data |-> n]

EndFrame == [type |-> "text", data |-> None]

NewConn == [status |-> "open", frames |-> <<>>, closes |-> 0]

StartConnectOk_NoTask(c) ==
    /\ pc[c] = "start_connect"
    /\ conns' = Append(conns, NewConn)
    /\ ws' = Len(conns) + 1
    /\ state' = RUNNING
    /\ Return(c, call[c], None)
    /\ UNCHANGED <<read_task, tasks, user_sig, nwrites, nmsgs>>
    /\ cbs' = <<>>
    /\ msg' = NoMsg
    /\ UNCHANGED others

\* connect succeeded: handle stored, RUNNING, receive task created.
StartConnectOk(c) ==
    /\ pc[c] = "start_connect"
    /\ conns' = Append(conns, NewConn)
    /\ ws' = Len(conns) + 1
    /\ state' = RUNNING
    /\ tasks' = Append(tasks, NewTask)
    /\ read_task' = Len(tasks) + 1
    /\ Return(c, call[c], None)
    /\ UNCHANGED <<user_sig, nwrites, nmsgs>>
    /\ cbs' = <<>>
    /\ msg' = NoMsg
    /\ UNCHANGED others

StartConnectFail_StaysStarting(c) ==
    /\ pc[c] = "start_connect"
    /\ Return(c, call[c], ERR_CONNECT_FAILED)
    /\ UNCHANGED <<state, ws, read_task, user_sig, conns, tasks, nwrites,
                    nmsgs>>
    /\ cbs' = <<>>
    /\ msg' = NoMsg
    /\ UNCHANGED others

\* connect raised: state back to IDLE, ConnectFailed.
StartConnectFail(c) ==
    /\ pc[c] = "start_connect"
    /\ state' = IDLE
    /\ Return(c, call[c], ERR_CONNECT_FAILED)
    /\ UNCHANGED <<ws, read_task, user_sig, conns, tasks, nwrites,
                    nmsgs>>
    /\ cbs' = <<>>
    /\ msg' = NoMsg
    /\ UNCHANGED others

\* ------------------------------------------------------------------------
\* write()
\* ------------------------------------------------------------------------
WriteRejected_NoHandleCheck(s, w) == s # RUNNING

WriteRejected(s, w) == s # RUNNING \/ w = None

\* write() up to its await: the two checks, then the send issued on the handle.
WriteCall(c) ==
    /\ pc[c] = "idle"
    /\ IF WriteRejected(state, ws)
       THEN /\ Return(c, NewCall("write", state, ws), ERR_NOT_STARTED)
            /\ UNCHANGED nwrites
       ELSE /\ nwrites < MaxWrites
            /\ nwrites' = nwrites + 1
            /\ Suspend(c, [NewCall("write", state, ws) EXCEPT !.arg = nwrites + 1],
                       "write_send")
    /\ UNCHANGED <<state, ws, read_task, user_sig, conns, tasks,
                    nmsgs>>
    /\ cbs' = <<>>
    /\ msg' = NoMsg
    /\ UNCHANGED others

\* The sends issued on the connection before caller c's send and still in
\* progress.  One connection carries its frames in the order the sends were
\* issued; a stop() issues its send after every write() that was accepted.
SendsAhead(c) ==
    {d \in Callers \ {c} :
        /\ pc[d] = "write_send"
        /\ call[d].ws0 = call[c].ws0
        /\ (pc[c] = "stop_send" \/ call[d].arg < call[c].arg)}

WriteSendOk_Unordered(c) ==
    /\ pc[c] = "write_send"
    /\ call[c].ws0 # None
    /\ conns[call[c].ws0].status = "open"
    /\ conns' = [conns EXCEPT
                    ![call[c].ws0].frames = Append(@, AudioFrame(call[c].arg))]
    /\ Return(c, [call[c] EXCEPT !.sent = "ok"], None)
    /\ UNCHANGED <<state, ws, read_task, user_sig, tasks, nwrites, nmsgs>>
    /\ cbs' = <<>>
    /\ msg' = NoMsg
    /\ UNCHANGED others

\* ws.send(data) completed within the write timeout.
WriteSendOk(c) ==
    /\ pc[c] = "write_send"
    /\ call[c].ws0 # None
    /\ SendsAhead(c) = {}
    /\ conns[call[c].ws0].status = "open"
    /\ conns' = [conns EXCEPT
                    ![call[c].ws0].frames = Append(@, AudioFrame(call[c].arg))]
    /\ Return(c, [call[c] EXCEPT !.sent = "ok"], None)
    /\ UNCHANGED <<state, ws, read_task, user_sig, tasks, nwrites,
                    nmsgs>>
    /\ cbs' = <<>>
    /\ msg' = NoMsg
    /\ UNCHANGED others

WriteSendFail_Stops(c) ==
    /\ pc[c] = "write_send"
    /\ state' = STOPPED
    /\ Return(c, [call[c] EXCEPT !.sent = "fail"], ERR_WRITE_FAILED)
    /\ UNCHANGED <<ws, read_task, user_sig, conns, tasks, nwrites, nmsgs>>
    /\ cbs' = <<>>
    /\ msg' = NoMsg
    /\ UNCHANGED others

\* ws.send(data) raised or the write timeout expired: WriteFailed.
WriteSendFail(c) ==
    /\ pc[c] = "write_send"
    /\ Return(c, [call[c] EXCEPT !.sent = "fail"], ERR_WRITE_FAILED)
    /\ UNCHANGED <<state, ws, read_task, user_sig, conns, tasks,
                    nwrites, nmsgs>>
    /\ cbs' = <<>>
    /\ msg' = NoMsg
    /\ UNCHANGED others

\* ------------------------------------------------------------------------
\* stop()
\* ------------------------------------------------------------------------
StopRejected_BelowRunning(s) == s < RUNNING

StopRejected_AllowStopping(s) == s # RUNNING /\ s # STOPPING

StopRejected(s) == s # RUNNING

StopNoConnState_Stopping == STOPPING

\* State set when stop() finds no connection handle (before raising).
StopNoConnState == STOPPED

\* stop() up to its first await: the state check, STOPPING, the handle check,
\* and the end-of-stream send issued on the handle.
StopCall(c) ==
    /\ pc[c] = "idle"
    /\ IF StopRejected(state)
       THEN /\ Return(c, NewCall("stop", state, ws), ERR_NOT_STARTED)
            /\ UNCHANGED state
       ELSE IF ws = None
       THEN /\ state' = StopNoConnState
            /\ Return(c, NewCall("stop", state, ws), ERR_NOT_STARTED)
       ELSE /\ state' = STOPPING
            /\ Suspend(c, NewCall("stop", state, ws), "stop_send")
    /\ UNCHANGED <<ws, read_task, user_sig, conns, tasks, nwrites,
                    nmsgs>>
    /\ cbs' = <<>>
    /\ msg' = NoMsg
    /\ UNCHANGED others

StopSendOk_Unordered(c) ==
    /\ pc[c] = "stop_send"
    /\ conns[call[c].ws0].status = "open"
    /\ conns' = [conns EXCEPT ![call[c].ws0].frames = Append(@, EndFrame)]
    /\ IF read_task # None
       THEN /\ Suspend(c, [call[c] EXCEPT !.sent = "ok", !.arg = read_task],
                       "stop_wait")
            /\ UNCHANGED state
       ELSE /\ state' = STOPPED
            /\ Return(c, [call[c] EXCEPT !.sent = "ok"], None)
    /\ UNCHANGED <<ws, read_task, user_sig, tasks, nwrites, nmsgs>>
    /\ cbs' = <<>>
    /\ msg' = NoMsg
    /\ UNCHANGED others

\* The end message was sent; stop() goes on to wait for the receive task.
StopSendOk(c) ==
    /\ pc[c] = "stop_send"
    /\ SendsAhead(c) = {}
    /\ conns[call[c].ws0].status = "open"
    /\ conns' = [conns EXCEPT ![call[c].ws0].frames = Append(@, EndFrame)]
    /\ IF read_task # None
       THEN /\ Suspend(c, [call[c] EXCEPT !.sent = "ok", !.arg = read_task],
                       "stop_wait")
            /\ UNCHANGED state
       ELSE /\ state' = STOPPED
            /\ Return(c, [call[c] EXCEPT !.sent = "ok"], None)
    /\ UNCHANGED <<ws, read_task, user_sig, tasks, nwrites, nmsgs>>
    /\ cbs' = <<>>
    /\ msg' = NoMsg
    /\ UNCHANGED others

StopSendFail_NoClose(c) ==
    /\ pc[c] = "stop_send"
    /\ state' = STOPPED
    /\ Return(c, [call[c] EXCEPT !.sent = "fail"], ERR_WRITE_FAILED)
    /\ UNCHANGED <<ws, read_task, user_sig, conns, tasks, nwrites,
                    nmsgs>>
    /\ cbs' = <<>>
    /\ msg' = NoMsg
    /\ UNCHANGED others

\* The end message send raised or timed out: _close(), then STOPPED and
\* WriteFailed.  With the handle already None _close() has nothing to await.
StopSendFail(c) ==
    /\ pc[c] = "stop_send"
    /\ IF ws # None
       THEN /\ conns' = CloseIssued(ws)
            /\ Suspend(c, [call[c] EXCEPT !.sent = "fail", !.arg = ws],
                       "stop_close")
            /\ UNCHANGED state
       ELSE /\ state' = STOPPED
            /\ Return(c, [call[c] EXCEPT !.sent = "fail"], ERR_WRITE_FAILED)
            /\ UNCHANGED conns
    /\ UNCHANGED <<ws, read_task, user_sig, tasks, nwrites, nmsgs>>
    /\ cbs' = <<>>
    /\ msg' = NoMsg
    /\ UNCHANGED others

\* ws.close() of the send-failure path completed (or raised, swallowed).
StopCloseDone(c) ==
    /\ pc[c] = "stop_close"
    /\ conns' = CloseCompleted(call[c].arg)
    /\ ws' = None
    /\ state' = STOPPED
    /\ Return(c, call[c], ERR_WRITE_FAILED)
    /\ UNCHANGED <<read_task, user_sig, tasks, nwrites, nmsgs>>
    /\ cbs' = <<>>
    /\ msg' = NoMsg
    /\ UNCHANGED others

\* The awaited receive task finished within the bounded wait.  wait_for
\* re-raises the exception of a task that ended with one; stop() catches only
\* TimeoutError, so the exception leaves stop() before STOPPED is set.
StopWaitDone(c) ==
    /\ pc[c] = "stop_wait"
    /\ tasks[call[c].arg].pc = "done"
    /\ IF tasks[call[c].arg].outcome = "raised"
       THEN /\ UNCHANGED state
            /\ Return(c, [call[c] EXCEPT !.wait = "done"], RawException)
       ELSE /\ state' = STOPPED
            /\ Return(c, [call[c] EXCEPT !.wait = "done"], None)
    /\ UNCHANGED <<ws, read_task, user_sig, conns, tasks, nwrites,
                    nmsgs>>
    /\ cbs' = <<>>
    /\ msg' = NoMsg
    /\ UNCHANGED others

StopWaitTimeout_Never(c) ==
    /\ FALSE
    /\ UNCHANGED vars

\* The bounded wait expired: wait_for cancels the receive task and waits
\* until the cancellation has been carried out.
StopWaitTimeout(c) ==
    /\ pc[c] = "stop_wait"
    /\ tasks[call[c].arg].pc # "done"
    /\ tasks' = [tasks EXCEPT ![call[c].arg].cancel = TRUE]
    /\ Suspend(c, [call[c] EXCEPT !.wait = "timeout"], "stop_cancel")
    /\ UNCHANGED <<state, ws, read_task, user_sig, conns, nwrites,
                    nmsgs>>
    /\ cbs' = <<>>
    /\ msg' = NoMsg
    /\ UNCHANGED others

StopCancelDone_NoClose(c) ==
    /\ pc[c] = "stop_cancel"
    /\ tasks[call[c].arg].pc = "done"
    /\ state' = STOPPED
    /\ Return(c, call[c], None)
    /\ UNCHANGED <<ws, read_task, user_sig, conns, tasks, nwrites,
                    nmsgs>>
    /\ cbs' = <<>>
    /\ msg' = NoMsg
    /\ UNCHANGED others

StopCancelDone_Raise(c) ==
    /\ pc[c] = "stop_cancel"
    /\ tasks[call[c].arg].pc = "done"
    /\ Return(c, call[c], ERR_TIMEOUT)
    /\ UNCHANGED <<state, ws, read_task, user_sig, conns, tasks,
                    nwrites, nmsgs>>
    /\ cbs' = <<>>
    /\ msg' = NoMsg
    /\ UNCHANGED others

StopCancelDone_NoWait(c) ==
    /\ pc[c] = "stop_cancel"
    /\ IF ws # None
       THEN /\ conns' = CloseIssued(ws)
            /\ Suspend(c, [call[c] EXCEPT !.arg = ws], "stop_tclose")
            /\ UNCHANGED state
       ELSE /\ state' = STOPPED
            /\ Return(c, call[c], None)
            /\ UNCHANGED conns
    /\ UNCHANGED <<ws, read_task, user_sig, tasks, nwrites, nmsgs>>
    /\ cbs' = <<>>
    /\ msg' = NoMsg
    /\ UNCHANGED others

\* The cancelled task is gone, wait_for raises TimeoutError, stop() catches it
\* and calls _close(), then sets STOPPED and returns.
StopCancelDone(c) ==
    /\ pc[c] = "stop_cancel"
    /\ tasks[call[c].arg].pc = "done"
    /\ IF ws # None
       THEN /\ conns' = CloseIssued(ws)
            /\ Suspend(c, [call[c] EXCEPT !.arg = ws], "stop_tclose")
            /\ UNCHANGED state
       ELSE /\ state' = STOPPED
            /\ Return(c, call[c], None)
            /\ UNCHANGED conns
    /\ UNCHANGED <<ws, read_task, user_sig, tasks, nwrites, nmsgs>>
    /\ cbs' = <<>>
    /\ msg' = NoMsg
    /\ UNCHANGED others

StopTimeoutCloseDone_KeepsHandle(c) ==
    /\ pc[c] = "stop_tclose"
    /\ conns' = CloseCompleted(call[c].arg)
    /\ state' = STOPPED
    /\ Return(c, call[c], None)
    /\ UNCHANGED <<ws, read_task, user_sig, tasks, nwrites, nmsgs>>
    /\ cbs' = <<>>
    /\ msg' = NoMsg
    /\ UNCHANGED others

\* ws.close() of the timeout path completed.
StopTimeoutCloseDone(c) ==
    /\ pc[c] = "stop_tclose"
    /\ conns' = CloseCompleted(call[c].arg)
    /\ ws' = None
    /\ state' = STOPPED
    /\ Return(c, call[c], None)
    /\ UNCHANGED <<read_task, user_sig, tasks, nwrites, nmsgs>>
    /\ cbs' = <<>>
    /\ msg' = NoMsg
    /\ UNCHANGED others

\* ------------------------------------------------------------------------
\* _read_loop(), the receive task
\* ------------------------------------------------------------------------
\* Inbound messages: text that is not JSON, bytes that are not UTF-8, JSON that
\* is no object, and JSON objects with a code, a slice_type (or none) and a
\* final flag.
Msgs ==
    [kind : {"badjson", "badutf8", "nondict"}, code : {0}, slice : {0},
     final : {0}]
    \cup [kind : {"object"}, code : {0, ServerCode},
          slice : {0, 1, 2, 3, SliceAbsent}, final : {0, 1}]

from_dict_KeepsAbsent(m) ==
    [code |-> m.code, final |-> m.final, slice_type |-> m.slice]

\* SpeechRecognitionResponse.from_dict: a missing slice_type decodes as 0.
from_dict(m) ==
    [code |-> m.code, final |-> m.final,
     slice_type |-> IF m.slice = SliceAbsent THEN 0 ELSE m.slice]

Cb(name, code, n) == [cb |-> name, code |-> code, n |-> n]

dispatch_event_StartOnFinal(resp, n) ==
    IF resp.slice_type = 0 THEN <<Cb("on_sentence_begin", 0, n)>>
    ELSE IF resp.slice_type = 1 THEN <<Cb("on_recognition_result_change", 0, n)>>
    ELSE IF resp.slice_type = 2 THEN <<Cb("on_sentence_end", 0, n)>>
    ELSE <<Cb("on_recognition_start", 0, n)>>

\* _dispatch_event: the callbacks invoked for a decoded response.
dispatch_event(resp, n) ==
    IF resp.slice_type = 0 THEN <<Cb("on_sentence_begin", 0, n)>>
    ELSE IF resp.slice_type = 1 THEN <<Cb("on_recognition_result_change", 0, n)>>
    ELSE IF resp.slice_type = 2 THEN <<Cb("on_sentence_end", 0, n)>>
    ELSE IF resp.final = 1 THEN <<>>
    ELSE <<Cb("on_recognition_start", 0, n)>>

OnReadException_Always(s, n) == <<Cb("on_fail", ERR_READ_FAILED, n)>>

\* The two except clauses of _read_loop: silent at or past STOPPING, else
\* on_fail with ReadFailed.
OnReadException(s, n) ==
    IF s >= STOPPING THEN <<>> ELSE <<Cb("on_fail", ERR_READ_FAILED, n)>>

Process_ServerErrorContinues(m, s, n) ==
    IF m.kind = "badjson"
    THEN [cbs |-> <<Cb("on_fail", ERR_READ_FAILED, n)>>, exit |-> FALSE]
    ELSE IF m.kind \in {"badutf8", "nondict"}
    THEN [cbs |-> OnReadException(s, n), exit |-> TRUE]
    ELSE LET resp == from_dict(m) IN
         IF resp.code # 0
         THEN [cbs |-> <<Cb("on_fail", resp.code, n)>>, exit |-> FALSE]
         ELSE IF resp.final = 1
         THEN [cbs |-> dispatch_event(resp, n)
                         \o <<Cb("on_recognition_complete", 0, n)>>,
               exit |-> TRUE]
         ELSE [cbs |-> dispatch_event(resp, n), exit |-> FALSE]

Process_CompleteFirst(m, s, n) ==
    IF m.kind = "badjson"
    THEN [cbs |-> <<Cb("on_fail", ERR_READ_FAILED, n)>>, exit |-> FALSE]
    ELSE IF m.kind \in {"badutf8", "nondict"}
    THEN [cbs |-> OnReadException(s, n), exit |-> TRUE]
    ELSE LET resp == from_dict(m) IN
         IF resp.code # 0
         THEN [cbs |-> <<Cb("on_fail", resp.code, n)>>, exit |-> TRUE]
         ELSE IF resp.final = 1
         THEN [cbs |-> <<Cb("on_recognition_complete", 0, n)>>
                         \o dispatch_event(resp, n),
               exit |-> TRUE]
         ELSE [cbs |-> dispatch_event(resp, n), exit |-> FALSE]

\* One iteration of the loop body on message m (the n-th): the callbacks made
\* and whether the loop is left.
Process(m, s, n) ==
    IF m.kind = "badjson"
    THEN [cbs |-> <<Cb("on_fail", ERR_READ_FAILED, n)>>, exit |-> FALSE]
    ELSE IF m.kind \in {"badutf8", "nondict"}
    THEN [cbs |-> OnReadException(s, n), exit |-> TRUE]
    ELSE LET resp == from_dict(m) IN
         IF resp.code # 0
         THEN [cbs |-> <<Cb("on_fail", resp.code, n)>>, exit |-> TRUE]
         ELSE IF resp.final = 1
         THEN [cbs |-> dispatch_event(resp, n)
                         \o <<Cb("on_recognition_complete", 0, n)>>,
               exit |-> TRUE]
         ELSE [cbs |-> dispatch_event(resp, n), exit |-> FALSE]

\* How the task ends after the except clauses made the callbacks h: on_fail
\* called there may raise, and then the exception leaves _read_loop.
Outcomes(h) ==
    IF h # <<>> /\ listener = "raises" THEN {"returned", "raised"}
    ELSE {"returned"}

\* Leaving the loop: the finally clause calls _close(), which awaits
\* ws.close() when the handle is set and otherwise ends the task at once.
ExitLoop(t, outcome) ==
    IF ws # None
    THEN /\ tasks' = [tasks EXCEPT ![t].pc = "closing", ![t].cl = ws,
                                   ![t].cancel = FALSE, ![t].outcome = outcome]
         /\ conns' = CloseIssued(ws)
    ELSE /\ tasks' = [tasks EXCEPT ![t].pc = "done", ![t].cancel = FALSE,
                                   ![t].outcome = outcome]
         /\ UNCHANGED conns

\* The task runs for the first time: `async for message in self._ws`.
RtStart(t) ==
    /\ tasks[t].pc = "created"
    /\ ~tasks[t].cancel
    /\ IF ws # None
       THEN /\ tasks' = [tasks EXCEPT ![t].pc = "recv", ![t].it = ws]
            /\ UNCHANGED <<conns>>
            /\ cbs' = <<>>
       ELSE /\ cbs' = OnReadException(state, nmsgs)
            /\ \E o \in Outcomes(OnReadException(state, nmsgs)) : ExitLoop(t, o)
    /\ UNCHANGED <<state, ws, read_task, user_sig, pc, call,
                   nwrites, nmsgs>>
    /\ last' = NoCall
    /\ msg' = NoMsg
    /\ UNCHANGED others

RtRecv_Repeats(t, m) ==
    /\ tasks[t].pc = "recv"
    /\ ~tasks[t].cancel
    /\ conns[tasks[t].it].status = "open"
    /\ nmsgs < MaxMsgs
    /\ nmsgs' = nmsgs + 1
    /\ LET r == Process(m, state, nmsgs + 1) IN
         /\ cbs' = r.cbs \o r.cbs
         /\ IF r.exit THEN ExitLoop(t, "returned")
                      ELSE UNCHANGED <<tasks, conns>>
    /\ UNCHANGED <<state, ws, read_task, user_sig, pc, call,
                   nwrites>>
    /\ last' = NoCall
    /\ msg' = m
    /\ UNCHANGED others

\* Where a callback made inside the try block may raise while message m is
\* handled: 0 is nowhere, i is in the i-th callback.
RaisePoints(m, made) ==
    IF listener = "raises" /\ m.kind \notin {"badutf8", "nondict"}
    THEN 0..Len(made) ELSE {0}

\* The next inbound message arrives and is handled.
RtRecv(t, m) ==
    /\ tasks[t].pc = "recv"
    /\ ~tasks[t].cancel
    /\ conns[tasks[t].it].status = "open"
    /\ nmsgs < MaxMsgs
    /\ nmsgs' = nmsgs + 1
    /\ LET r == Process(m, state, nmsgs + 1)
           h == OnReadException(state, nmsgs + 1)
       IN  \E i \in RaisePoints(m, r.cbs) :
              IF i = 0
              THEN \* every callback returned, or on_fail raised in an except clause
                   /\ cbs' = r.cbs
                   /\ IF r.exit
                      THEN \E o \in (IF m.kind \in {"badutf8", "nondict"}
                                     THEN Outcomes(r.cbs) ELSE {"returned"}) :
                              ExitLoop(t, o)
                      ELSE UNCHANGED <<tasks, conns>>
              ELSE \* the i-th callback raised inside the try block
                   /\ cbs' = SubSeq(r.cbs, 1, i) \o h
                   /\ \E o \in Outcomes(h) : ExitLoop(t, o)
    /\ UNCHANGED <<state, ws, read_task, user_sig, pc, call,
                   nwrites>>
    /\ last' = NoCall
    /\ msg' = m
    /\ UNCHANGED others

\* The connection is closed: the iteration ends silently on a normal closure
\* (websockets ends `async for` on ConnectionClosedOK) and raises
\* ConnectionClosed otherwise.
RtRecvClosed(t) ==
    /\ tasks[t].pc = "recv"
    /\ ~tasks[t].cancel
    /\ conns[tasks[t].it].status # "open"
    /\ cbs' = IF conns[tasks[t].it].status = "closed_ok" THEN <<>>
              ELSE OnReadException(state, nmsgs)
    /\ \E o \in Outcomes(IF conns[tasks[t].it].status = "closed_ok" THEN <<>>
                          ELSE OnReadException(state, nmsgs)) : ExitLoop(t, o)
    /\ UNCHANGED <<state, ws, read_task, user_sig, pc, call,
                   nwrites, nmsgs>>
    /\ last' = NoCall
    /\ msg' = NoMsg
    /\ UNCHANGED others

\* ws.close() awaited by the finally clause completed: handle set to None.
RtCloseDone(t) ==
    /\ tasks[t].pc = "closing"
    /\ ~tasks[t].cancel
    /\ conns' = CloseCompleted(tasks[t].cl)
    /\ ws' = None
    /\ tasks' = [tasks EXCEPT ![t].pc = "done"]
    /\ UNCHANGED <<state, read_task, user_sig, pc, call, nwrites,
                    nmsgs>>
    /\ cbs' = <<>>
    /\ msg' = NoMsg
    /\ UNCHANGED others
    /\ last' = NoCall

\* CancelledError is thrown into the task where it is suspended: a task that
\* never ran ends without running its body; in the loop the finally clause
\* runs; inside _close() the await is abandoned and the handle is not reset.
RtCancel(t) ==
    /\ tasks[t].cancel
    /\ tasks[t].pc # "done"
    /\ IF tasks[t].pc = "recv"
       THEN ExitLoop(t, "cancelled")
       ELSE /\ tasks' = [tasks EXCEPT ![t].pc = "done", ![t].cancel = FALSE,
                                      ![t].outcome = "cancelled"]
            /\ UNCHANGED conns
    /\ UNCHANGED <<state, ws, read_task, user_sig, pc, call,
                    nwrites, nmsgs>>
    /\ cbs' = <<>>
    /\ msg' = NoMsg
    /\ UNCHANGED others
    /\ last' = NoCall

\* ------------------------------------------------------------------------
\* the server / network
\* ------------------------------------------------------------------------
\* The peer closes the connection, normally or not.
ServerClose(k, how) ==
    /\ conns[k].status = "open"
    /\ conns' = [conns EXCEPT ![k].status = how]
    /\ UNCHANGED <<state, ws, read_task, user_sig, tasks, pc, call,
                    nwrites, nmsgs>>
    /\ cbs' = <<>>
    /\ msg' = NoMsg
    /\ UNCHANGED others
    /\ last' = NoCall

\* ------------------------------------------------------------------------
CallerStep(c) ==
    \/ StartCall(c) \/ StartConnectOk(c) \/ StartConnectFail(c)
    \/ WriteCall(c) \/ WriteSendOk(c) \/ WriteSendFail(c)
    \/ StopCall(c) \/ StopSendOk(c) \/ StopSendFail(c) \/ StopCloseDone(c)
    \/ StopWaitDone(c) \/ StopWaitTimeout(c) \/ StopCancelDone(c)
    \/ StopTimeoutCloseDone(c)

TaskStep(t) ==
    \/ RtStart(t) \/ (\E m \in Msgs : RtRecv(t, m)) \/ RtRecvClosed(t)
    \/ RtCloseDone(t) \/ RtCancel(t)

Next ==
    \/ \E c \in Callers : CallerStep(c)
    \/ \E t \in DOMAIN tasks : TaskStep(t)
    \/ \E k \in DOMAIN conns : \E how \in {"closed_ok", "closed_err"} :
          ServerClose(k, how)

Spec == Init /\ [][Next]_vars

\* The steps that continue a stop() in progress.
StopStep(c) ==
    \/ StopSendOk(c) \/ StopSendFail(c) \/ StopCloseDone(c) \/ StopWaitDone(c)
    \/ StopWaitTimeout(c) \/ StopCancelDone(c) \/ StopTimeoutCloseDone(c)

\* Scheduling the code relies on: a transport send or close finishes or times
\* out, the timer of the bounded wait fires unless the task ends first, and
\* the event loop runs a coroutine that stays ready (the stop() in progress,
\* the receive task being cancelled or closing).  Nothing is assumed of the
\* server or of what the callers do next.
Fairness ==
    /\ WF_vars(\E c \in Callers : StopStep(c))
    /\ WF_vars(\E t \in DOMAIN tasks : RtCancel(t) \/ RtCloseDone(t))

FairSpec == Spec /\ Fairness

\* The session with a listener whose callbacks may raise.
InitListener ==
    /\ InitSession
    /\ listener \in {"returns", "raises"}
    /\ InitOthers

ListenerSpec == InitListener /\ [][Next]_vars

\* ========================================================================
\* Properties
\* ========================================================================
StopPcs == {"stop_send", "stop_close", "stop_wait", "stop_cancel", "stop_tclose"}

EndFrameSent == \E k \in DOMAIN conns : \E i \in DOMAIN conns[k].frames :
                    conns[k].frames[i] = EndFrame

C3_StartRejectedUnlessIdle ==
    [][(last'.op = "start" /\ last'.st0 # IDLE) =>
          /\ last'.err = ERR_ALREADY_STARTED
          /\ UNCHANGED <<state, ws, read_task, conns, tasks>>]_vars

C3_Witness ==
    /\ last.op = "start" /\ last.st0 = STARTING
    /\ last.err = ERR_ALREADY_STARTED
    /\ \E c \in Callers : pc[c] = "start_connect"

\* C4: write() in a state other than RUNNING, or in RUNNING without a handle,
\* raises NotStarted, sends nothing and leaves the state unchanged.
C4_WriteRejectedUnlessRunningWithHandle ==
    [][(last'.op = "write" /\ (last'.st0 # RUNNING \/ last'.ws0 = None)) =>
          /\ last'.err = ERR_NOT_STARTED
          /\ last'.sent = "none"
          /\ UNCHANGED <<state, ws, conns>>]_vars

C4_Witness ==
    /\ last.op = "write" /\ last.st0 = RUNNING /\ last.ws0 = None
    /\ last.err = ERR_NOT_STARTED

\* C5: stop() in RUNNING with the handle absent raises NotStarted, sends no
\* end-of-stream frame and ends with state = STOPPED.
C5_StopWithoutHandle ==
    (last.op = "stop" /\ last.st0 = RUNNING /\ last.ws0 = None) =>
        /\ last.err = ERR_NOT_STARTED
        /\ last.sent = "none"
        /\ ~EndFrameSent
        /\ state = STOPPED

C5_Witness ==
    /\ last.op = "stop" /\ last.st0 = RUNNING /\ last.ws0 = None
    /\ read_task # None /\ tasks[read_task].pc = "done"

\* C6: when the end-of-stream send of a stop() begun in RUNNING fails or times
\* out, stop() raises WriteFailed with the connection closed, the handle None
\* and state = STOPPED, without having waited for the receive task.
C6_StopSendFailure ==
    (last.op = "stop" /\ last.st0 = RUNNING /\ last.sent = "fail") =>
        /\ last.err = ERR_WRITE_FAILED
        /\ last.wait = "none"
        /\ state = STOPPED
        /\ ws = None
        /\ conns[last.ws0].status # "open"

C6_Witness ==
    /\ last.op = "stop" /\ last.st0 = RUNNING /\ last.sent = "fail"
    /\ tasks[read_task].pc # "done"

\* C7: when the end-of-stream message was sent and the bounded wait expires,
\* stop() returns without raising, with the connection closed, the receive
\* task ended, the handle None and state = STOPPED.
C7_StopWaitTimeout ==
    (last.op = "stop" /\ last.wait = "timeout") =>
        /\ last.sent = "ok"
        /\ last.err = None
        /\ state = STOPPED
        /\ ws = None
        /\ conns[last.ws0].status # "open"
        /\ tasks[read_task].pc = "done"

C7_Witness ==
    /\ last.op = "stop" /\ last.wait = "timeout"
    /\ tasks[read_task].outcome = "cancelled"
    /\ nmsgs = 0

\* C8: a stop() in progress always completes, whatever the server does.
C8_StopCompletes ==
    \A c \in Callers : (pc[c] \in StopPcs) ~> (pc[c] = "idle")

C8_Witness ==
    \E c \in Callers :
        /\ pc[c] = "stop_wait"
        /\ tasks[call[c].arg].pc = "recv"
        /\ conns[call[c].ws0].status = "open"
        /\ nmsgs = 0

\* C9: once STOPPED the session stays STOPPED; a start() then raises
\* AlreadyStarted, a write() or stop() raises NotStarted, and no connection is
\* opened and no receive task created.
C9_StoppedIsFinal ==
    [][state = STOPPED =>
          /\ state' = STOPPED
          /\ ws' = ws
          /\ Len(conns') = Len(conns)
          /\ Len(tasks') = Len(tasks)
          /\ read_task' = read_task
          /\ (last'.op # "none" /\ last'.st0 = STOPPED) =>
                last'.err = IF last'.op = "start" THEN ERR_ALREADY_STARTED
                            ELSE ERR_NOT_STARTED]_vars

C9_Witness ==
    /\ state = STOPPED
    /\ last.op = "start" /\ last.st0 = STOPPED
    /\ last.err = ERR_ALREADY_STARTED

\* C10: a start() that found IDLE and whose connect succeeded returns with
\* state = RUNNING, the handle set to the new connection, and one receive
\* task created for it.
C10_StartSuccess ==
    [][(last'.op = "start" /\ last'.err = None) =>
          /\ last'.st0 = IDLE
          /\ state' = RUNNING
          /\ Len(conns') = Len(conns) + 1
          /\ ws' = Len(conns')
          /\ conns'[ws'].status = "open"
          /\ Len(tasks') = Len(tasks) + 1
          /\ read_task' = Len(tasks')
          /\ tasks'[read_task'].pc = "created"
          /\ Len(tasks') = Len(conns')]_vars

C10_Witness ==
    /\ last.op = "start" /\ last.err = None
    /\ state = RUNNING /\ ws # None
    /\ Len(tasks) = 1 /\ read_task = 1

\* C11: when a start() begun in IDLE fails to connect it raises ConnectFailed
\* with the state back to IDLE, the handle None and no receive task, and the
\* session then accepts a start() again; a start() that finds IDLE never
\* raises AlreadyStarted.
C11_ConnectFailureBackToIdle ==
    [][/\ (last'.op = "start" /\ last'.err = ERR_CONNECT_FAILED) =>
              /\ last'.st0 = IDLE
              /\ state' = IDLE
              /\ ws' = None
              /\ read_task' = None
              /\ conns' = <<>> /\ tasks' = <<>>
              /\ ~StartRejected(state')
       /\ (last'.op = "start" /\ last'.st0 = IDLE) =>
              last'.err # ERR_ALREADY_STARTED]_vars

C11_Witness ==
    /\ last.op = "start" /\ last.err = ERR_CONNECT_FAILED
    /\ state = IDLE /\ ws = None /\ tasks = <<>>

\* C12: when signing the token fails start() raises AuthFailed with the state
\* back to IDLE and no connect attempted; a connect is only ever in progress,
\* and a connection only ever opened, with a non-empty signed token.
C12_AuthFailureNoConnect ==
    [][/\ (last'.op = "start" /\ last'.err = ERR_AUTH_FAILED) =>
              /\ last'.st0 = IDLE
              /\ state' = IDLE
              /\ UNCHANGED <<ws, read_task, conns, tasks>>
              /\ \A c \in Callers : pc'[c] # "start_connect"
       /\ \A c \in Callers : pc'[c] = "start_connect" => user_sig' # ""
       /\ Len(conns') > Len(conns) => user_sig # ""]_vars

C12_Witness ==
    /\ last.op = "start" /\ last.err = ERR_AUTH_FAILED
    /\ state = IDLE /\ user_sig = "" /\ conns = <<>>

\* C13: a write() whose send fails or times out raises WriteFailed and itself
\* changes neither the state nor the handle nor the receive task nor the
\* connection; if the state is RUNNING a stop() is then accepted.
C13_WriteFailureChangesNothing ==
    [][(last'.op = "write" /\ last'.sent = "fail") =>
          /\ last'.err = ERR_WRITE_FAILED
          /\ UNCHANGED <<state, ws, read_task, conns, tasks>>
          /\ state = RUNNING => ~StopRejected(state')]_vars

C13_Witness ==
    /\ last.op = "write" /\ last.sent = "fail"
    /\ state = RUNNING /\ ws # None /\ conns[ws].status = "open"
    /\ tasks[read_task].pc = "recv"

\* C14: the frames on a connection change only by one frame appended at the
\* end; an audio frame is appended exactly when a write() succeeds, it is that
\* write's frame, and it was submitted after every audio frame already there.
C14_WritesInCallOrder ==
    [][\A k \in DOMAIN conns :
          LET old == conns[k].frames
              new == conns'[k].frames
              done == {c \in Callers : /\ pc[c] = "write_send"
                                       /\ pc'[c] = "idle"
                                       /\ call[c].ws0 = k
                                       /\ last'.err = None}
          IN  /\ \/ new = old
                 \/ new = Append(old, EndFrame)
                 \/ \E c \in done :
                       /\ new = Append(old, AudioFrame(call[c].arg))
                       /\ \A i \in DOMAIN old :
                             old[i].type = "binary" => old[i].data < call[c].arg
              /\ done # {} => Len(new) = Len(old) + 1]_vars

C14_Witness ==
    /\ last.op = "write" /\ last.err = None
    /\ conns[ws].frames = <<AudioFrame(1), AudioFrame(2)>>

\* The end-of-stream frames sent so far, over every connection.
EndFrames(cs) ==
    {<<k, i>> \in (DOMAIN cs) \X (1..(MaxWrites + 2)) :
        i \in DOMAIN cs[k].frames /\ cs[k].frames[i] = EndFrame}

\* C15: at most one end-of-stream frame is ever sent, and it is sent by a
\* stop() that found state RUNNING and a connection handle.
C15_OneEndFrame ==
    [][/\ Cardinality(EndFrames(conns')) <= 1
       /\ EndFrames(conns') # EndFrames(conns) =>
             \E c \in Callers :
                /\ pc[c] = "stop_send"
                /\ call[c].st0 = RUNNING
                /\ call[c].ws0 # None
                /\ EndFrames(conns') = {<<call[c].ws0,
                                          Len(conns'[call[c].ws0].frames)>>}]_vars

C15_Witness ==
    /\ Cardinality(EndFrames(conns)) = 1
    /\ last.op = "stop" /\ last.st0 = STOPPING /\ last.err = ERR_NOT_STARTED

\* The receive loop of the session is still iterating.
LoopRunning == \A t \in DOMAIN tasks : tasks[t].pc = "recv"

\* C16 (as stated): for every inbound message that is not valid structured
\* data (text that is not JSON, bytes that are not UTF-8) on_fail is invoked
\* exactly once with ReadFailed and the loop goes on.
C16_BadMessageNonFatal ==
    msg.kind \in {"badjson", "badutf8"} =>
        /\ cbs = <<Cb("on_fail", ERR_READ_FAILED, nmsgs)>>
        /\ LoopRunning

\* Text that is not JSON is reported once and the loop goes on.
C16_Witness ==
    /\ msg.kind = "badjson"
    /\ cbs = <<Cb("on_fail", ERR_READ_FAILED, nmsgs)>>
    /\ LoopRunning

\* The receive loop of the session has been left.
LoopLeft == tasks # <<>> /\ \A t \in DOMAIN tasks : tasks[t].pc \in {"closing", "done"}

\* C17: a decoded event with a non-zero code makes exactly one callback,
\* on_fail with that code; the loop is left and the close of the connection is
\* started in the same step; once the loop is left no callback is ever made.
C17_ServerErrorFatal ==
    [][/\ (msg'.kind = "object" /\ msg'.code # 0) =>
              /\ cbs' = <<Cb("on_fail", msg'.code, nmsgs')>>
              /\ \E t \in DOMAIN tasks :
                    /\ tasks[t].pc = "recv"
                    /\ tasks'[t].pc \in {"closing", "done"}
                    /\ conns'[tasks[t].it].closes = conns[tasks[t].it].closes + 1
       /\ LoopLeft => (cbs' = <<>> /\ msg' = NoMsg)]_vars

C17_Witness ==
    /\ msg.kind = "object" /\ msg.code = ServerCode
    /\ msg.final = 1 /\ msg.slice = 2
    /\ cbs = <<Cb("on_fail", ServerCode, nmsgs)>>
    /\ LoopLeft

Taxonomy ==
    {ERR_INVALID_PARAM, ERR_CONNECT_FAILED, ERR_WRITE_FAILED, ERR_READ_FAILED,
     ERR_AUTH_FAILED, ERR_TIMEOUT, ERR_SERVER_ERROR, ERR_ALREADY_STARTED,
     ERR_NOT_STARTED, ERR_ALREADY_STOPPED}

\* C18 (as stated): every error raised by a call or given to on_fail carries
\* a code of the taxonomy, and for a non-zero server code the error given to
\* on_fail is ServerError.
C18_ErrorsFromTaxonomy ==
    /\ last.err # None => last.err \in Taxonomy
    /\ \A i \in DOMAIN cbs :
          cbs[i].cb = "on_fail" =>
             /\ cbs[i].code \in Taxonomy
             /\ msg.code # 0 => cbs[i].code = ERR_SERVER_ERROR

\* The errors raised by start/write/stop themselves are of the taxonomy.
C18_Witness ==
    /\ last.err \in Taxonomy
    /\ last.op = "stop" /\ last.err = ERR_WRITE_FAILED

SliceCbs == {"on_sentence_begin", "on_recognition_result_change",
             "on_sentence_end", "on_recognition_start"}

IsSliceCb(x) == x.cb \in SliceCbs

\* C19: a decoded event with code 0 gets exactly one slice callback, chosen by
\* its slice kind: sentence-begin, result-change, sentence-end, and
\* on_recognition_start for any other kind on a non-final event; it gets none
\* only when the kind is another one and the event is final.
C19_OneSliceCallback ==
    (msg.kind = "object" /\ msg.code = 0) =>
        LET kind == from_dict(msg).slice_type
            made == SelectSeq(cbs, IsSliceCb)
        IN  /\ kind = 0 => made = <<Cb("on_sentence_begin", 0, nmsgs)>>
            /\ kind = 1 => made = <<Cb("on_recognition_result_change", 0, nmsgs)>>
            /\ kind = 2 => made = <<Cb("on_sentence_end", 0, nmsgs)>>
            /\ (kind \notin {0, 1, 2} /\ msg.final = 0) =>
                   made = <<Cb("on_recognition_start", 0, nmsgs)>>
            /\ (kind \notin {0, 1, 2} /\ msg.final = 1) => made = <<>>
            /\ made = <<>> => (kind \notin {0, 1, 2} /\ msg.final = 1)

C19_Witness ==
    /\ msg.kind = "object" /\ msg.code = 0 /\ msg.slice = 3 /\ msg.final = 0
    /\ nmsgs = 2
    /\ cbs = <<Cb("on_recognition_start", 0, 2)>>

SentenceEndNonFinal ==
    /\ msg.kind = "object" /\ msg.code = 0 /\ msg.slice = 2 /\ msg.final = 0
    /\ cbs = <<Cb("on_sentence_end", 0, nmsgs)>>

\* What holds of every final event with code 0: on_recognition_complete is the
\* last callback of the step and is made once, after at most one slice
\* callback; the loop is left and the close of the connection started.
FinalEventStep ==
    (msg'.kind = "object" /\ msg'.code = 0 /\ msg'.final = 1) =>
        /\ Len(cbs') \in {1, 2}
        /\ cbs'[Len(cbs')] = Cb("on_recognition_complete", 0, nmsgs')
        /\ Len(cbs') = 2 => IsSliceCb(cbs'[1])
        /\ \E t \in DOMAIN tasks :
              /\ tasks[t].pc = "recv"
              /\ tasks'[t].pc \in {"closing", "done"}
              /\ conns'[tasks[t].it].closes = conns[tasks[t].it].closes + 1

\* C20 (as stated): a final event with code 0 gets on_recognition_complete
\* after its slice callback, the loop is left and nothing follows; and when a
\* non-final sentence-end event is followed by a final event the listener
\* sees on_sentence_end, then on_recognition_complete, and nothing else.
C20_SentenceEndThenCompleteOnly ==
    [][/\ FinalEventStep
       /\ LoopLeft => cbs' = <<>>
       /\ (SentenceEndNonFinal /\ msg'.kind = "object" /\ msg'.code = 0
             /\ msg'.final = 1) =>
                cbs' = <<Cb("on_recognition_complete", 0, nmsgs')>>]_vars

\* C20 (amended): as above, but after the non-final sentence-end event the
\* listener sees on_recognition_complete alone only when the final event's
\* slice kind is none of the three known kinds; when it is one of them, or is
\* missing (decoded as sentence-begin), that kind's callback comes first.
C20_CompleteAfterSliceCallback ==
    [][/\ FinalEventStep
       /\ LoopLeft => cbs' = <<>>
       /\ (SentenceEndNonFinal /\ msg'.kind = "object" /\ msg'.code = 0
             /\ msg'.final = 1) =>
                IF from_dict(msg').slice_type \in {0, 1, 2}
                THEN /\ Len(cbs') = 2
                     /\ cbs'[1] = dispatch_event(from_dict(msg'), nmsgs')[1]
                     /\ cbs'[1].cb # "on_recognition_start"
                ELSE cbs' = <<Cb("on_recognition_complete", 0, nmsgs')>>]_vars

C20_Witness ==
    /\ msg.kind = "object" /\ msg.code = 0 /\ msg.final = 1 /\ msg.slice = 3
    /\ nmsgs = 2
    /\ cbs = <<Cb("on_recognition_complete", 0, 2)>>
    /\ LoopLeft

\* ------------------------------------------------------------------------
\* closure of the connection, order of the callbacks, exceptions of the loop
\* ------------------------------------------------------------------------
\* In this step task t, waiting for a message, finds the connection closed.
ClosureSeen(t) ==
    /\ tasks[t].pc = "recv"
    /\ ~tasks[t].cancel
    /\ tasks'[t].pc \in {"closing", "done"}
    /\ msg' = NoMsg

\* C21 (as stated): when the connection closes while the state is below
\* STOPPING, however it closes, the loop invokes on_fail exactly once with
\* ReadFailed, is left with the close of the connection started, and the state
\* is unchanged.
C21_ClosureWhileRunningReported ==
    [][\A t \in DOMAIN tasks :
          (ClosureSeen(t) /\ state < STOPPING) =>
              /\ cbs' = <<Cb("on_fail", ERR_READ_FAILED, nmsgs)>>
              /\ state' = state
              /\ conns'[tasks[t].it].closes = conns[tasks[t].it].closes + 1]_vars

\* An abnormal closure while RUNNING is reported once.
C21_Witness ==
    /\ state = RUNNING
    /\ msg = NoMsg
    /\ cbs = <<Cb("on_fail", ERR_READ_FAILED, nmsgs)>>
    /\ \E t \in DOMAIN tasks :
          /\ tasks[t].pc = "closing"
          /\ conns[tasks[t].it].status = "closed_err"

\* In this step task t leaves the loop because the connection is closed or
\* because reading failed (no handle to iterate, undecodable bytes, a JSON
\* value that is no object).
ReadEnded(t) ==
    /\ tasks[t].pc \in {"created", "recv"}
    /\ ~tasks[t].cancel
    /\ tasks'[t].pc \in {"closing", "done"}
    /\ msg'.kind \in {"none", "badutf8", "nondict"}

\* C22: when the connection closes or reading fails at or past STOPPING the
\* loop is left without any callback, and the stop() that waited for the task
\* returns without error with the session STOPPED.
C22_ClosureWhileStoppingSilent ==
    [][/\ \A t \in DOMAIN tasks :
             (ReadEnded(t) /\ state >= STOPPING) =>
                 /\ cbs' = <<>>
                 /\ tasks'[t].outcome = "returned"
       /\ (last'.op = "stop" /\ last'.wait = "done") =>
             /\ last'.err = None
             /\ state' = STOPPED]_vars

C22_Witness ==
    /\ state = STOPPING
    /\ msg = NoMsg /\ cbs = <<>> /\ nmsgs = 0
    /\ \E c \in Callers :
          /\ pc[c] = "stop_wait"
          /\ tasks[call[c].arg].pc = "closing"
          /\ tasks[call[c].arg].outcome = "returned"
          /\ conns[tasks[call[c].arg].it].status # "open"

\* C23: the callbacks of a step are those of the one message handled in it,
\* the messages are handled one per step in the order of arrival (the n-th
\* message makes the callbacks numbered n), and no callback is made twice.
C23_CallbacksInMessageOrder ==
    [][/\ nmsgs' = IF msg' = NoMsg THEN nmsgs ELSE nmsgs + 1
       /\ \A i \in DOMAIN cbs' : cbs'[i].n = nmsgs'
       /\ \A i, j \in DOMAIN cbs' : cbs'[i] = cbs'[j] => i = j
       /\ msg' # NoMsg => cbs' = Process(msg', state, nmsgs').cbs]_vars

C23_Witness ==
    /\ nmsgs = 2
    /\ msg.kind = "object" /\ msg.code = 0 /\ msg.final = 1 /\ msg.slice = 2
    /\ cbs = <<Cb("on_sentence_end", 0, 2), Cb("on_recognition_complete", 0, 2)>>

\* C24 (as stated): a failure inside the receive loop reaches the application
\* through on_fail only; no call, a stop() waiting for the receive task
\* included, raises an exception that comes from the loop.
C24_NoLoopExceptionInCalls == last.err # RawException

\* A callback raised while an event was handled: the loop reported it through
\* on_fail and ended without an exception.
C24_Witness ==
    /\ listener = "raises"
    /\ msg.kind = "object"
    /\ Len(cbs) = 2 /\ cbs[1].cb # "on_fail"
    /\ cbs[2] = Cb("on_fail", ERR_READ_FAILED, nmsgs)
    /\ \E t \in DOMAIN tasks : tasks[t].pc = "closing" /\ tasks[t].outcome = "returned"

\* ------------------------------------------------------------------------
\* several sessions with one Credential (_connect, lines 284-332)
\* ------------------------------------------------------------------------
Sessions == 1..NumSessions

\* Credential.user_sig after construction: the empty string.
NoSig == <<>>

\* TLSSigAPIv2.gen_sig(user_id, expire): a token signed over user_id.
gen_sig(user_id) == <<user_id>>

\* str(uuid.uuid4()) drawn by session i: unlike every other session's.
uuid4(i) == i

\* A token the application computed itself and hands to set_user_sig; it is
\* signed over a user id that is no session's voice id.
PresetSig == gen_sig(0)

\* Credential(app_id, sdk_app_id, secret_key): the fields given at construction.
CredentialIds == [app_id |-> 1300, sdk_app_id |-> 1400, secret_key |-> <<"k", "1">>]

InitSessions ==
    /\ InitSession
    /\ listener = "returns"
    /\ sig = <<>>
    /\ http = <<>>
    /\ sessions = [cred |-> NoSig,
                   ids |-> CredentialIds,
                   s |-> [i \in Sessions |->
                            [state |-> IDLE, voice_id |-> None, url_sig |-> NoSig]]]

SessConnect_Fresh(i) ==
    /\ sessions.s[i].state = IDLE
    /\ LET voice_id == IF sessions.s[i].voice_id # None
                       THEN sessions.s[i].voice_id ELSE uuid4(i)
       IN  sessions' = [sessions EXCEPT
                          !.cred = gen_sig(voice_id),
                          !.s[i] = [state |-> STARTING, voice_id |-> voice_id,
                                    url_sig |-> gen_sig(voice_id)]]
    /\ UNCHANGED <<svars, listener, sig, http>>

\* start() of session i up to the await of connect(): the voice id is drawn
\* if unset, the Credential's token is generated over it if the Credential
\* has none, and the Credential's token goes into the URL and the headers.
SessConnect(i) ==
    /\ sessions.s[i].state = IDLE
    /\ LET voice_id == IF sessions.s[i].voice_id # None
                       THEN sessions.s[i].voice_id ELSE uuid4(i)
           cred == IF sessions.cred = NoSig THEN gen_sig(voice_id)
                   ELSE sessions.cred
       IN  \/ sessions' = [sessions EXCEPT
                             !.cred = cred,
                             !.s[i] = [state |-> STARTING, voice_id |-> voice_id,
                                       url_sig |-> cred]]
           \/ \* gen_user_sig raised: AuthFailed, the session is IDLE again
              /\ sessions.cred = NoSig
              /\ sessions' = [sessions EXCEPT !.s[i].voice_id = voice_id]
    /\ UNCHANGED <<svars, listener, sig, http>>

\* connect() succeeded: RUNNING.
SessConnectOk(i) ==
    /\ sessions.s[i].state = STARTING
    /\ sessions' = [sessions EXCEPT !.s[i].state = RUNNING]
    /\ UNCHANGED <<svars, listener, sig, http>>

\* connect() failed: back to IDLE; the voice id and the Credential's token stay.
SessConnectFail(i) ==
    /\ sessions.s[i].state = STARTING
    /\ sessions' = [sessions EXCEPT !.s[i].state = IDLE, !.s[i].url_sig = NoSig]
    /\ UNCHANGED <<svars, listener, sig, http>>

\* stop() of session i ran to its end.
SessStop(i) ==
    /\ sessions.s[i].state = RUNNING
    /\ sessions' = [sessions EXCEPT !.s[i].state = STOPPED]
    /\ UNCHANGED <<svars, listener, sig, http>>

\* The application calls credential.set_user_sig with its own token.
SessSetUserSig ==
    /\ sessions.cred # PresetSig
    /\ sessions' = [sessions EXCEPT !.cred = PresetSig]
    /\ UNCHANGED <<svars, listener, sig, http>>

SessionsNext ==
    \/ \E i \in Sessions :
          SessConnect(i) \/ SessConnectOk(i) \/ SessConnectFail(i) \/ SessStop(i)
    \/ SessSetUserSig

SessionsSpec == InitSessions /\ [][SessionsNext]_vars

\* C25 (as stated): the token in the connect URL and headers of every session
\* that started successfully was signed over that session's own voice id, also
\* when several sessions use one Credential that had no token at first.
C25_TokenSignedForOwnSession ==
    \A i \in Sessions :
        (sessions.s[i].state \in {RUNNING, STOPPING, STOPPED}
            /\ sessions.s[i].url_sig # PresetSig) =>
                sessions.s[i].url_sig = gen_sig(sessions.s[i].voice_id)

\* The first session started with the Credential carries its own token.
C25_Witness ==
    \E i \in Sessions :
        /\ sessions.s[i].state = RUNNING
        /\ sessions.s[i].url_sig = gen_sig(uuid4(i))
        /\ sessions.cred = gen_sig(uuid4(i))

\* ------------------------------------------------------------------------
\* the query-string builder (signature.py)
\* ------------------------------------------------------------------------
\* A Python str is a sequence of one-character strings here; the built query
\* string is the sequence of its "k=v" items, each [k, v], joined by "&".
\* The arguments a SignatureParams is constructed from.  A field of the
\* dataclass that is not passed takes its default.
Unset == [given |-> FALSE, value |-> 0]

Given(n) == [given |-> TRUE, value |-> n]

Now == 1000          \* int(time.time()) when the instance is constructed

SecretKeys == {<<"k", "1">>, <<"s", "/", "2">>}

Tokens == {<<"e", "J", "x">>, <<"a", "+", "b", "=", "=">>}

\* Every combination of the fields _to_map adds conditionally.
OptionalArgs ==
    [engine_model_type : {<<"1", "6", "k">>},
     voice_id : {<<"a", "&", "b", "=", "c">>},
     expired : {Unset},
     nonce : {7},
     voice_format : {1},
     need_vad : {0},
     convert_num_mode : {0, 1},
     hotword_id : {<<>>, <<"h", " ", "1">>},
     customization_id : {<<>>, <<"c", "9">>},
     filter_dirty : {0, 1},
     filter_modal : {0, 2},
     filter_punc : {0, 1},
     word_info : {0, 1},
     vad_silence_time : {0, 800},
     max_speak_time : {0, 60000}]

\* The other fields varied, the conditional ones at their defaults.
RequiredArgs ==
    [engine_model_type : {<<"1", "6", "k">>, <<"8", "k", "_", "e", "n">>},
     voice_id : {<<"v", "1">>, <<"a", "&", "b", "=", "c">>},
     expired : {Unset, Given(0), Given(500)},
     nonce : {7, 9999999},
     voice_format : {1, 12},
     need_vad : {0, 1},
     convert_num_mode : {1},
     hotword_id : {<<>>},
     customization_id : {<<>>},
     filter_dirty : {0},
     filter_modal : {0},
     filter_punc : {0},
     word_info : {0},
     vad_silence_time : {0},
     max_speak_time : {0}]

Args == OptionalArgs \cup RequiredArgs

Credentials == [app_id : {1300}, sdk_app_id : {1400}, secret_key : SecretKeys]

post_init_Always(p) == [p EXCEPT !.expired = p.timestamp + 86400]

\* __post_init__: an expiry of 0 becomes timestamp + 86400.
post_init(p) ==
    IF p.expired = 0 THEN [p EXCEPT !.expired = p.timestamp + 86400] ELSE p

NewSignatureParams_Leaks(cred, a) ==
    post_init([app_id |-> cred.app_id,
               engine_model_type |-> a.engine_model_type,
               voice_id |-> a.voice_id,
               timestamp |-> Now,
               expired |-> IF a.expired.given THEN a.expired.value ELSE 0,
               nonce |-> a.nonce,
               voice_format |-> a.voice_format,
               need_vad |-> a.need_vad,
               convert_num_mode |-> a.convert_num_mode,
               hotword_id |-> cred.secret_key,
               customization_id |-> a.customization_id,
               filter_dirty |-> a.filter_dirty,
               filter_modal |-> a.filter_modal,
               filter_punc |-> a.filter_punc,
               word_info |-> a.word_info,
               vad_silence_time |-> a.vad_silence_time,
               max_speak_time |-> a.max_speak_time])

\* SignatureParams(app_id=credential.app_id, ...): the dataclass __init__
\* followed by __post_init__.
NewSignatureParams(cred, a) ==
    post_init([app_id |-> cred.app_id,
               engine_model_type |-> a.engine_model_type,
               voice_id |-> a.voice_id,
               timestamp |-> Now,
               expired |-> IF a.expired.given THEN a.expired.value ELSE 0,
               nonce |-> a.nonce,
               voice_format |-> a.voice_format,
               need_vad |-> a.need_vad,
               convert_num_mode |-> a.convert_num_mode,
               hotword_id |-> a.hotword_id,
               customization_id |-> a.customization_id,
               filter_dirty |-> a.filter_dirty,
               filter_modal |-> a.filter_modal,
               filter_punc |-> a.filter_punc,
               word_info |-> a.word_info,
               vad_silence_time |-> a.vad_silence_time,
               max_speak_time |-> a.max_speak_time])

Digits == <<"0", "1", "2", "3", "4", "5", "6", "7", "8", "9">>

RECURSIVE str(_)
\* str(n) of a non-negative int.
str(n) ==
    IF n < 10 THEN <<Digits[n + 1]>>
    ELSE str(n \div 10) \o <<Digits[(n % 10) + 1]>>

Unreserved ==
    {"a", "b", "c", "d", "e", "f", "g", "h", "i", "j", "k", "l", "m", "n",
     "o", "p", "q", "r", "s", "t", "u", "v", "w", "x", "y", "z",
     "A", "B", "C", "D", "E", "F", "G", "H", "I", "J", "K", "L", "M", "N",
     "O", "P", "Q", "R", "S", "T", "U", "V", "W", "X", "Y", "Z",
     "0", "1", "2", "3", "4", "5", "6", "7", "8", "9", "_", ".", "-", "~"}

\* The percent-escape of one character that is not unreserved.
Escape(ch) ==
    CASE ch = " " -> "%20"
      [] ch = "%" -> "%25"
      [] ch = "&" -> "%26"
      [] ch = "+" -> "%2B"
      [] ch = "/" -> "%2F"
      [] ch = "=" -> "%3D"

RECURSIVE quote(_)
\* urllib.parse.quote(v, safe=''): the encoded value, as one string.
quote(v) ==
    IF v = <<>> THEN ""
    ELSE (IF Head(v) \in Unreserved THEN Head(v) ELSE Escape(Head(v)))
            \o quote(Tail(v))

RequiredKeys ==
    {"secretid", "timestamp", "expired", "nonce", "engine_model_type",
     "voice_id", "voice_format", "needvad"}

\* The keys _to_map adds when the field is truthy, with the field's value as
\* a str.
Conditional(p) ==
    [hotword_id |-> p.hotword_id,
     customization_id |-> p.customization_id,
     filter_dirty |-> IF p.filter_dirty = 0 THEN <<>> ELSE str(p.filter_dirty),
     filter_modal |-> IF p.filter_modal = 0 THEN <<>> ELSE str(p.filter_modal),
     filter_punc |-> IF p.filter_punc = 0 THEN <<>> ELSE str(p.filter_punc),
     convert_num_mode |-> IF p.convert_num_mode = 0 THEN <<>>
                          ELSE str(p.convert_num_mode),
     word_info |-> IF p.word_info = 0 THEN <<>> ELSE str(p.word_info),
     vad_silence_time |-> IF p.vad_silence_time = 0 THEN <<>>
                          ELSE str(p.vad_silence_time),
     max_speak_time |-> IF p.max_speak_time = 0 THEN <<>>
                        ELSE str(p.max_speak_time)]

\* The eight items _to_map always puts into the dict.
Required(p) ==
    [secretid |-> str(p.app_id),
     timestamp |-> str(p.timestamp),
     expired |-> str(p.expired),
     nonce |-> str(p.nonce),
     engine_model_type |-> p.engine_model_type,
     voice_id |-> p.voice_id,
     voice_format |-> str(p.voice_format),
     needvad |-> str(p.need_vad)]

to_map_KeepsEmpty(p) ==
    LET req == Required(p)
        cond == Conditional(p)
    IN  [k \in RequiredKeys \cup DOMAIN cond |->
            IF k \in RequiredKeys THEN req[k] ELSE cond[k]]

\* _to_map: the dict of the parameters, key -> str.
to_map(p) ==
    LET req == Required(p)
        cond == Conditional(p)
        opt == {k \in DOMAIN cond : cond[k] # <<>>}
    IN  [k \in RequiredKeys \cup opt |->
            IF k \in RequiredKeys THEN req[k] ELSE cond[k]]

\* The character codes of a key (ord of each character).
ord(k) ==
    CASE k = "secretid" -> <<115, 101, 99, 114, 101, 116, 105, 100>>
      [] k = "timestamp" -> <<116, 105, 109, 101, 115, 116, 97, 109, 112>>
      [] k = "expired" -> <<101, 120, 112, 105, 114, 101, 100>>
      [] k = "nonce" -> <<110, 111, 110, 99, 101>>
      [] k = "engine_model_type" -> <<101, 110, 103, 105, 110, 101, 95, 109, 111, 100, 101, 108, 95, 116, 121, 112, 101>>
      [] k = "voice_id" -> <<118, 111, 105, 99, 101, 95, 105, 100>>
      [] k = "voice_format" -> <<118, 111, 105, 99, 101, 95, 102, 111, 114, 109, 97, 116>>
      [] k = "needvad" -> <<110, 101, 101, 100, 118, 97, 100>>
      [] k = "hotword_id" -> <<104, 111, 116, 119, 111, 114, 100, 95, 105, 100>>
      [] k = "customization_id" -> <<99, 117, 115, 116, 111, 109, 105, 122, 97, 116, 105, 111, 110, 95, 105, 100>>
      [] k = "filter_dirty" -> <<102, 105, 108, 116, 101, 114, 95, 100, 105, 114, 116, 121>>
      [] k = "filter_modal" -> <<102, 105, 108, 116, 101, 114, 95, 109, 111, 100, 97, 108>>
      [] k = "filter_punc" -> <<102, 105, 108, 116, 101, 114, 95, 112, 117, 110, 99>>
      [] k = "convert_num_mode" -> <<99, 111, 110, 118, 101, 114, 116, 95, 110, 117, 109, 95, 109, 111, 100, 101>>
      [] k = "word_info" -> <<119, 111, 114, 100, 95, 105, 110, 102, 111>>
      [] k = "vad_silence_time" -> <<118, 97, 100, 95, 115, 105, 108, 101, 110, 99, 101, 95, 116, 105, 109, 101>>
      [] k = "max_speak_time" -> <<109, 97, 120, 95, 115, 112, 101, 97, 107, 95, 116, 105, 109, 101>>
      [] k = "signature" -> <<115, 105, 103, 110, 97, 116, 117, 114, 101>>

\* Python's < on two str, by their character codes.
Less(a, b) ==
    \E i \in 1..(Len(a) + 1) :
        /\ \A j \in 1..(i - 1) : j <= Len(b) /\ a[j] = b[j]
        /\ i <= Len(b)
        /\ (i <= Len(a) => a[i] < b[i])

RECURSIVE sorted(_)
\* sorted(params.items()): the keys of a dict are distinct, so the items come
\* in the order of their keys.
sorted(ks) ==
    IF ks = {} THEN <<>>
    ELSE LET m == CHOOSE x \in ks : \A y \in ks \ {x} : Less(ord(x), ord(y))
         IN  <<m>> \o sorted(ks \ {m})

\* _encode_params: the items "k=quote(v)" in sorted order.
encode_params(params) ==
    LET ks == sorted(DOMAIN params)
    IN  [i \in 1..Len(ks) |-> [k |-> ks[i], v |-> quote(params[ks[i]])]]

\* build_query_string
build_query_string(p) == encode_params(to_map(p))

build_query_string_with_signature_Last(p, token) ==
    encode_params(to_map(p)) \o <<[k |-> "signature", v |-> quote(token)]>>

\* build_query_string_with_signature: params["signature"] = user_sig
build_query_string_with_signature(p, token) ==
    LET m == to_map(p)
    IN  encode_params([k \in DOMAIN m \cup {"signature"} |->
                          IF k = "signature" THEN token ELSE m[k]])

InitSig ==
    /\ InitSession
    /\ listener = "returns"
    /\ sessions = <<>>
    /\ http = <<>>
    /\ \E cred \in Credentials, a \in Args :
          sig = [stage |-> "args", cred |-> cred, args |-> a, p |-> <<>>,
                 token |-> <<>>, q |-> <<>>]

\* The instance is constructed.
SigConstruct ==
    /\ sig.stage = "args"
    /\ sig' = [sig EXCEPT !.stage = "instance",
                          !.p = NewSignatureParams(sig.cred, sig.args)]
    /\ UNCHANGED <<svars, listener, sessions, http>>

\* build_query_string() is called on the instance.
SigBuild ==
    /\ sig.stage \in {"instance", "signed"}
    /\ sig' = [sig EXCEPT !.stage = "unsigned", !.token = <<>>,
                          !.q = build_query_string(sig.p)]
    /\ UNCHANGED <<svars, listener, sessions, http>>

\* build_query_string_with_signature(token) is called on the instance.
SigBuildSigned(token) ==
    /\ sig.stage \in {"instance", "unsigned"}
    /\ sig' = [sig EXCEPT !.stage = "signed", !.token = token,
                          !.q = build_query_string_with_signature(sig.p, token)]
    /\ UNCHANGED <<svars, listener, sessions, http>>

SigNext == SigConstruct \/ SigBuild \/ (\E token \in Tokens : SigBuildSigned(token))

SigSpec == InitSig /\ [][SigNext]_vars

Built == sig.stage \in {"unsigned", "signed"}

QueryKeys == {sig.q[i].k : i \in DOMAIN sig.q}

\* C26: the keys of a built query string are in strictly ascending order of
\* their character codes (hence no key twice); in the signed variant the key
\* signature stands at its sorted place, between secretid and timestamp.
C26_KeysStrictlyAscending ==
    Built =>
        /\ \A i \in 1..(Len(sig.q) - 1) : Less(ord(sig.q[i].k), ord(sig.q[i + 1].k))
        /\ sig.stage = "signed" =>
              \E i \in 2..(Len(sig.q) - 1) :
                  /\ sig.q[i] = [k |-> "signature", v |-> quote(sig.token)]
                  /\ sig.q[i - 1].k = "secretid"
                  /\ sig.q[i + 1].k = "timestamp"
        /\ sig.stage = "unsigned" => "signature" \notin QueryKeys

C26_Witness ==
    /\ sig.stage = "signed"
    /\ Len(sig.q) = 18
    /\ sig.q[13].k = "signature" /\ sig.q[13].v = "a%2Bb%3D%3D"
    /\ sig.q[18].k = "word_info"

OptionalKeys ==
    {"hotword_id", "customization_id", "filter_dirty", "filter_modal",
     "filter_punc", "word_info", "vad_silence_time", "max_speak_time"}

\* The item of key k in the built query string is exactly [k, v].
HasItem(k, v) ==
    /\ \E i \in DOMAIN sig.q : sig.q[i] = [k |-> k, v |-> v]
    /\ Cardinality({i \in DOMAIN sig.q : sig.q[i].k = k}) = 1

\* C27: an optional field is absent from the built query string when it is
\* zero or empty and present once with its (encoded) value otherwise; the
\* eight required keys are always present, with the instance's values.
C27_OptionalOmittedRequiredPresent ==
    Built =>
        /\ \A k \in {"hotword_id", "customization_id"} :
              IF sig.p[k] = <<>> THEN k \notin QueryKeys
              ELSE HasItem(k, quote(sig.p[k]))
        /\ \A k \in OptionalKeys \ {"hotword_id", "customization_id"} :
              IF sig.p[k] = 0 THEN k \notin QueryKeys
              ELSE HasItem(k, quote(str(sig.p[k])))
        /\ HasItem("secretid", quote(str(sig.p.app_id)))
        /\ HasItem("timestamp", quote(str(sig.p.timestamp)))
        /\ HasItem("expired", quote(str(sig.p.expired)))
        /\ HasItem("nonce", quote(str(sig.p.nonce)))
        /\ HasItem("engine_model_type", quote(sig.p.engine_model_type))
        /\ HasItem("voice_id", quote(sig.p.voice_id))
        /\ HasItem("voice_format", quote(str(sig.p.voice_format)))
        /\ HasItem("needvad", quote(str(sig.p.need_vad)))

C27_Witness ==
    /\ sig.stage = "unsigned"
    /\ HasItem("hotword_id", "h%201")
    /\ HasItem("max_speak_time", "60000")
    /\ HasItem("needvad", "0")
    /\ HasItem("voice_id", "a%26b%3Dc")
    /\ QueryKeys \cap OptionalKeys = {"hotword_id", "max_speak_time"}

\* C28 (as stated): constructed without an explicit expiry, expired is
\* timestamp + 86400; an explicitly supplied expiry is kept unchanged.
C28_ExplicitExpiryKept ==
    sig.stage # "args" =>
        IF sig.args.expired.given
        THEN sig.p.expired = sig.args.expired.value
        ELSE sig.p.expired = sig.p.timestamp + 86400

\* C28 (amended): constructed without an expiry, or with the expiry 0,
\* expired is timestamp + 86400; any other supplied expiry is kept unchanged.
C28_NonZeroExpiryKept ==
    sig.stage # "args" =>
        IF sig.args.expired.given /\ sig.args.expired.value # 0
        THEN sig.p.expired = sig.args.expired.value
        ELSE sig.p.expired = sig.p.timestamp + 86400

C28_Witness ==
    /\ sig.stage = "instance"
    /\ sig.args.expired = Given(0)
    /\ sig.p.expired = Now + 86400

\* One string of the characters of v.
RECURSIVE Flat(_)
Flat(v) == IF v = <<>> THEN "" ELSE Head(v) \o Flat(Tail(v))

\* C29: the built query string is the same whatever the Credential's secret
\* key is, and none of its keys or values is the secret key, plain or
\* percent-encoded.
C29_SecretKeyNotInQuery ==
    Built =>
        /\ \A key \in SecretKeys :
              LET p == NewSignatureParams([sig.cred EXCEPT !.secret_key = key],
                                          sig.args)
              IN  sig.q = IF sig.stage = "signed"
                          THEN build_query_string_with_signature(p, sig.token)
                          ELSE build_query_string(p)
        /\ \A i \in DOMAIN sig.q :
              /\ sig.q[i].k # Flat(sig.cred.secret_key)
              /\ sig.q[i].v # Flat(sig.cred.secret_key)
              /\ sig.q[i].v # quote(sig.cred.secret_key)

C29_Witness ==
    /\ sig.stage = "signed"
    /\ sig.cred.secret_key = <<"s", "/", "2">>
    /\ Len(sig.q) = 18
    /\ HasItem("secretid", "1300")

\* ------------------------------------------------------------------------
\* the HTTP clients (sentence_recognizer.py, file_recognizer.py)
\* ------------------------------------------------------------------------
SOURCE_TYPE_URL == 0
SOURCE_TYPE_DATA == 1

SentenceLimit == 3 * 1024 * 1024     \* recognize_data*: len(data) above it is refused
FileLimit == 5 * 1024 * 1024         \* create_task_from_data*: the same

\* A str argument is compared with "" only; bytes and base64 text are
\* modelled by their lengths.
Strs == {"", "x"}

RawLens == {0, 1, SentenceLimit, SentenceLimit + 1, FileLimit, FileLimit + 1}

\* len(base64.b64encode(data)) for len(data) = n.
b64encode(n) == 4 * ((n + 2) \div 3)

\* The arguments of a call: the request object's fields (req = "none" for
\* None), the raw audio, the audio URL, the task id, and the Credential's
\* user_sig.
In(op, reqs, engs, fmts, srcs, urls, datas, raws, chans, ids) ==
    [op : {op}, req : reqs, eng : engs, voice_format : fmts, source_type : srcs,
     url : urls, data : datas, raw : raws, channel_num : chans,
     rec_task_id : ids, cred_sig : Strs]

SentenceOps ==
    {"recognize", "recognize_data", "recognize_data_with_options", "recognize_url"}

HttpInputs ==
    In("recognize", {"none", "obj"}, Strs, Strs, {0, 1, 2}, Strs, {0, 4}, {0}, {1}, {""})
    \cup In("recognize_data", {"obj"}, Strs, Strs, {1}, {""}, {0}, RawLens, {1}, {""})
    \cup In("recognize_data_with_options", {"obj"}, Strs, Strs, {0, 1}, {""}, {0},
            RawLens, {1}, {""})
    \cup In("recognize_url", {"obj"}, Strs, Strs, {0}, Strs, {0}, {0}, {1}, {""})
    \cup In("create_task", {"none", "obj"}, Strs, {"x"}, {0, 1, 2}, Strs, {0, 4}, {0},
            {-1, 0, 1, 2}, {""})
    \cup In("create_task_from_data", {"obj"}, Strs, {"x"}, {1}, {""}, {0}, RawLens,
            {1}, {""})
    \cup In("create_task_from_url", {"obj"}, Strs, {"x"}, {0}, Strs, {0}, {0}, {1}, {""})
    \cup In("create_task_from_data_with_options", {"obj"}, Strs, {"x"}, {0, 1}, {""},
            {0}, RawLens, {0, 1}, {""})
    \cup In("describe_task_status", {"obj"}, {"x"}, {"x"}, {1}, {""}, {0}, {0}, {1}, Strs)

\* SentenceRecognizer._validate_request: TRUE when it raises InvalidParameter.
validate_request(req) ==
    \/ req.req = "none"
    \/ req.eng = ""
    \/ req.voice_format = ""
    \/ req.source_type = SOURCE_TYPE_URL /\ req.url = ""
    \/ req.source_type = SOURCE_TYPE_DATA /\ req.data = 0

validate_create_request_AnyChannels(req) ==
    \/ req.req = "none"
    \/ req.eng = ""
    \/ req.source_type = SOURCE_TYPE_URL /\ req.url = ""
    \/ req.source_type = SOURCE_TYPE_DATA /\ req.data = 0

\* FileRecognizer._validate_create_request: TRUE when it raises
\* InvalidParameter.
validate_create_request(req) ==
    \/ req.req = "none"
    \/ req.eng = ""
    \/ req.channel_num <= 0
    \/ req.source_type = SOURCE_TYPE_URL /\ req.url = ""
    \/ req.source_type = SOURCE_TYPE_DATA /\ req.data = 0

\* The checks a convenience method makes on its own arguments before it
\* builds the request: TRUE when it raises InvalidParameter.
ArgsRefused(in) ==
    CASE in.op \in {"recognize_data", "recognize_data_with_options"} ->
            in.raw = 0 \/ in.raw > SentenceLimit
      [] in.op \in {"create_task_from_data", "create_task_from_data_with_options"} ->
            in.raw = 0 \/ in.raw > FileLimit
      [] in.op \in {"recognize_url", "create_task_from_url"} -> in.url = ""
      [] in.op = "describe_task_status" -> in.rec_task_id = ""
      [] OTHER -> FALSE

\* The request handed to recognize() / create_task().
RequestOf(in) ==
    CASE in.op \in {"recognize_data", "create_task_from_data"} ->
            [in EXCEPT !.source_type = SOURCE_TYPE_DATA, !.data = b64encode(in.raw),
                       !.url = "", !.channel_num = 1]
      [] in.op \in {"recognize_data_with_options",
                    "create_task_from_data_with_options"} ->
            [in EXCEPT !.source_type = SOURCE_TYPE_DATA, !.data = b64encode(in.raw)]
      [] in.op \in {"recognize_url", "create_task_from_url"} ->
            [in EXCEPT !.source_type = SOURCE_TYPE_URL, !.data = 0,
                       !.channel_num = 1]
      [] OTHER -> in

\* The call raises InvalidParameter.
Refused(in) ==
    \/ ArgsRefused(in)
    \/ /\ in.op # "describe_task_status"
       /\ IF in.op \in SentenceOps THEN validate_request(RequestOf(in))
          ELSE validate_create_request(RequestOf(in))

InitHttp ==
    /\ InitSession
    /\ listener = "returns"
    /\ sessions = <<>>
    /\ sig = <<>>
    /\ \E in \in HttpInputs :
          http = [in |-> in, stage |-> "called", generated |-> FALSE,
                  sent |-> FALSE, err |-> None]

\* The call up to the end of the validation.
HttpValidate ==
    /\ http.stage = "called"
    /\ http' = IF Refused(http.in)
               THEN [http EXCEPT !.stage = "done", !.err = ERR_INVALID_PARAM]
               ELSE [http EXCEPT !.stage = "validated"]
    /\ UNCHANGED <<svars, listener, sessions, sig>>

\* The token: the Credential's if it has one, else generated for this request;
\* gen_user_sig may raise.
HttpSign ==
    /\ http.stage = "validated"
    /\ IF http.in.cred_sig # ""
       THEN http' = [http EXCEPT !.stage = "signed"]
       ELSE \/ http' = [http EXCEPT !.stage = "signed", !.generated = TRUE]
            \/ http' = [http EXCEPT !.stage = "done", !.generated = TRUE,
                                    !.err = ERR_AUTH_FAILED]
    /\ UNCHANGED <<svars, listener, sessions, sig>>

\* urlopen and the handling of the response.
HttpSend(e) ==
    /\ http.stage = "signed"
    /\ http' = [http EXCEPT !.stage = "done", !.sent = TRUE, !.err = e]
    /\ UNCHANGED <<svars, listener, sessions, sig>>

HttpNext ==
    \/ HttpValidate
    \/ HttpSign
    \/ \E e \in {None, ERR_SERVER_ERROR, ERR_CONNECT_FAILED, ERR_READ_FAILED} :
          HttpSend(e)

HttpSpec == InitHttp /\ [][HttpNext]_vars

\* The source named by the request has no content.
NoSource(in) ==
    \/ in.source_type = SOURCE_TYPE_URL /\ in.url = ""
    \/ in.source_type = SOURCE_TYPE_DATA /\ in.data = 0

\* The arguments of the call fail the parameter validation.
BadParams(in) ==
    CASE in.op = "recognize" ->
            in.eng = "" \/ in.voice_format = "" \/ NoSource(in)
      [] in.op \in {"recognize_data", "recognize_data_with_options"} ->
            in.raw = 0 \/ in.raw > 3 * 1024 * 1024 \/ in.eng = ""
               \/ in.voice_format = ""
      [] in.op = "recognize_url" ->
            in.url = "" \/ in.eng = "" \/ in.voice_format = ""
      [] in.op = "create_task" ->
            in.eng = "" \/ in.channel_num <= 0 \/ NoSource(in)
      [] in.op = "create_task_from_data" ->
            in.raw = 0 \/ in.raw > 5 * 1024 * 1024 \/ in.eng = ""
      [] in.op = "create_task_from_data_with_options" ->
            in.raw = 0 \/ in.raw > 5 * 1024 * 1024 \/ in.eng = ""
               \/ in.channel_num <= 0
      [] in.op = "create_task_from_url" -> in.url = "" \/ in.eng = ""
      [] in.op = "describe_task_status" -> in.rec_task_id = ""

\* C30: a call of an HTTP client whose arguments fail the validation raises
\* InvalidParameter; no token is generated and no HTTP request is sent for it.
C30_InvalidParamsFailFirst ==
    BadParams(http.in) =>
        /\ ~http.generated
        /\ ~http.sent
        /\ http.stage \in {"called", "done"}
        /\ http.stage = "done" => http.err = ERR_INVALID_PARAM

C30_Witness ==
    /\ http.stage = "done"
    /\ http.in.op = "create_task_from_data_with_options"
    /\ http.in.raw = 1 /\ http.in.eng = "x" /\ http.in.channel_num = 0
    /\ http.in.cred_sig = ""
    /\ http.err = ERR_INVALID_PARAM
    /\ ~http.generated /\ ~http.sent

\* ------------------------------------------------------------------------
\* the connection handle and its closes
\* ------------------------------------------------------------------------
\* The call sites with a ws.close() of connection k in progress: receive
\* tasks in their finally clause and stop() calls in _close().
ClosingTasks(k) == {t \in DOMAIN tasks : tasks[t].pc = "closing" /\ tasks[t].cl = k}

ClosingCallers(k) ==
    {c \in Callers : pc[c] \in {"stop_close", "stop_tclose"} /\ call[c].arg = k}

\* C31 (as stated): the close of a connection is issued at most once, and at
\* no moment do two call sites have a close of it in progress.
C31_CloseIssuedOnce ==
    \A k \in DOMAIN conns :
        /\ conns[k].closes <= 1
        /\ Cardinality(ClosingTasks(k)) + Cardinality(ClosingCallers(k)) <= 1

\* The receive loop's exit alone closed the connection, once.
C31_Witness ==
    /\ state = STOPPED /\ ws = None
    /\ last.op = "stop" /\ last.wait = "done"
    /\ conns[1].closes = 1 /\ conns[1].status = "closed_ok"

\* The receive task of the session has ended.
LoopTerminated == tasks # <<>> /\ \A t \in DOMAIN tasks : tasks[t].pc = "done"

\* C32 (as stated): whenever the receive loop has terminated, on whatever
\* exit path, the connection handle is null.
C32_HandleNullAfterLoop == LoopTerminated => ws = None

\* The loop left after the final event and released the handle.
C32_Witness ==
    /\ LoopTerminated /\ ws = None
    /\ tasks[1].outcome = "returned"
    /\ state = RUNNING

\* C36: the handle is set only while the state is RUNNING or STOPPING.
C36_HandleOnlyWhileRunningOrStopping ==
    state \in {IDLE, STARTING, STOPPED} => ws = None

C36_Witness ==
    /\ state = STOPPING /\ ws # None
    /\ \E c \in Callers : pc[c] = "stop_tclose"

\* ------------------------------------------------------------------------
\* one receive loop, the callbacks' origin, the session after the loop
\* ------------------------------------------------------------------------
\* The receive tasks that have not ended.
LiveTasks == {t \in DOMAIN tasks : tasks[t].pc # "done"}

\* C33: a session never has two receive tasks alive, whatever the start()
\* calls and their retries; a step that invokes a listener callback is a step
\* of the receive task handling a message, a closure or a read failure, and
\* never a step of a start(), write() or stop() call.
C33_OneLoopMakesAllCallbacks ==
    [][/\ Cardinality({t \in DOMAIN tasks' : tasks'[t].pc # "done"}) <= 1
       /\ cbs' # <<>> =>
             /\ LiveTasks # {}
             /\ \E t \in LiveTasks : tasks[t].pc \in {"created", "recv"}
             /\ pc' = pc /\ call' = call /\ last' = NoCall]_vars

\* The loop dispatches an event while a write() is in progress.
C33_Witness ==
    /\ Len(conns) = 1 /\ Len(tasks) = 1
    /\ cbs = <<Cb("on_recognition_result_change", 0, 1)>>
    /\ \E c \in Callers : pc[c] = "write_send"
    /\ tasks[1].pc = "recv"

\* C37: when a stop() returns without raising the receive task has ended;
\* once it has ended no task is created and no callback is made any more.
C37_NoCallbackAfterStopReturned ==
    [][/\ (last'.op = "stop" /\ last'.err = None) =>
             (tasks' # <<>> /\ \A t \in DOMAIN tasks' : tasks'[t].pc = "done")
       /\ LoopTerminated => (tasks' = tasks /\ cbs' = <<>> /\ msg' = NoMsg)]_vars

C37_Witness ==
    /\ last.op = "stop" /\ last.err = None /\ last.wait = "timeout"
    /\ LoopTerminated
    /\ nmsgs = 1
    /\ conns[1].status = "closed_ok"

\* The loop has ended and released the handle with no stop() called.
LoopGoneWhileRunning == state = RUNNING /\ ws = None /\ LoopTerminated

\* C38: from then on the state stays RUNNING until a stop() is called; a
\* write() called is refused with NotStarted; the stop() called is refused
\* with NotStarted, leaves the session STOPPED and sends nothing.
C38_AfterLoopGoneWhileRunning ==
    [][LoopGoneWhileRunning =>
          /\ \A c \in Callers :
                (pc[c] = "idle" /\ pc'[c] # "idle") => FALSE
          /\ last'.op = "write" /\ last'.st0 = RUNNING /\ last'.ws0 = None =>
                last'.err = ERR_NOT_STARTED /\ state' = RUNNING
          /\ last'.op = "stop" =>
                /\ last'.err = ERR_NOT_STARTED
                /\ state' = STOPPED
                /\ conns' = conns
          /\ last'.op # "stop" => state' = RUNNING]_vars

C38_Witness ==
    /\ last.op = "stop" /\ last.err = ERR_NOT_STARTED /\ last.st0 = RUNNING
    /\ state = STOPPED
    /\ LoopTerminated /\ tasks[1].outcome = "returned"
    /\ nmsgs = 1
    /\ ~EndFrameSent

\* C39: on no connection does an audio frame follow the end-of-stream frame.
C39_NoAudioAfterEndFrame ==
    \A k \in DOMAIN conns :
        \A i, j \in DOMAIN conns[k].frames :
            (i < j /\ conns[k].frames[i] = EndFrame) =>
                conns[k].frames[j].type # "binary"

\* A write() that passed its check before stop() has its frame before the
\* end-of-stream frame.
C39_Witness ==
    /\ Len(conns) = 1
    /\ conns[1].frames = <<AudioFrame(1), AudioFrame(2), EndFrame>>
    /\ state = STOPPING

\* C40: an event with code 0 and no slice kind makes on_sentence_begin, and
\* when it is final on_recognition_complete after it; it never makes
\* on_recognition_start.
C40_AbsentSliceIsSentenceBegin ==
    [][(msg'.kind = "object" /\ msg'.code = 0 /\ msg'.slice = SliceAbsent) =>
          cbs' = IF msg'.final = 1
                 THEN <<Cb("on_sentence_begin", 0, nmsgs'),
                        Cb("on_recognition_complete", 0, nmsgs')>>
                 ELSE <<Cb("on_sentence_begin", 0, nmsgs')>>]_vars

C40_Witness ==
    /\ msg.kind = "object" /\ msg.code = 0 /\ msg.slice = SliceAbsent
    /\ msg.final = 1
    /\ cbs = <<Cb("on_sentence_begin", 0, nmsgs),
               Cb("on_recognition_complete", 0, nmsgs)>>
    /\ nmsgs = 1

\* ------------------------------------------------------------------------
\* the Credential's token and fields
\* ------------------------------------------------------------------------
\* In this step session i runs start() up to the await of connect().
SessStarts(i) == sessions.s[i].state = IDLE /\ sessions'.s[i].state = STARTING

\* C34: a start() signs a token only when the Credential holds none; a token
\* the Credential holds is put into the URL and the headers as it is and is
\* not replaced; no step of a session changes the Credential's app id, sdk
\* app id or secret key.
C34_TokenSignedOnlyWhenAbsent ==
    [][/\ sessions'.ids = sessions.ids
       /\ \A i \in Sessions :
             SessStarts(i) =>
                 /\ sessions'.s[i].url_sig = sessions'.cred
                 /\ sessions'.cred = IF sessions.cred # NoSig THEN sessions.cred
                                     ELSE gen_sig(sessions'.s[i].voice_id)
       /\ (sessions'.s # sessions.s /\ sessions'.cred # sessions.cred) =>
             sessions.cred = NoSig]_vars

\* A session runs with the token set with set_user_sig, which the Credential
\* still holds.
C34_Witness ==
    /\ sessions.cred = PresetSig
    /\ sessions.ids = CredentialIds
    /\ \E i \in Sessions :
          /\ sessions.s[i].state = RUNNING
          /\ sessions.s[i].voice_id = uuid4(i)
          /\ sessions.s[i].url_sig = PresetSig

\* ------------------------------------------------------------------------
\* FileRecognizer.wait_for_result_with_interval
\* ------------------------------------------------------------------------
TASK_STATUS_WAITING == 0
TASK_STATUS_RUNNING == 1
TASK_STATUS_SUCCESS == 2
TASK_STATUS_FAILED == 3

\* What a call of describe_task_status gives: a TaskStatus with some status,
\* or an ASRError.
Reports ==
    [kind : {"status"},
     val : {TASK_STATUS_WAITING, TASK_STATUS_RUNNING, TASK_STATUS_SUCCESS,
            TASK_STATUS_FAILED}]
    \cup [kind : {"error"},
          val : {ERR_AUTH_FAILED, ERR_CONNECT_FAILED, ERR_SERVER_ERROR,
                 ERR_READ_FAILED}]

NoReport == [kind |-> "none", val |-> 0]

Tick(t, d) == IF t + d > MaxClock THEN MaxClock ELSE t + d

\* The call is entered: deadline = time.monotonic() + timeout.
InitPoll ==
    /\ InitSession
    /\ listener = "returns"
    /\ sessions = <<>>
    /\ sig = <<>>
    /\ \E timeout \in {0, 1, 2}, interval \in {0, 1}, id \in Strs :
          http = [stage |-> "poll", rec_task_id |-> id, interval |-> interval,
                  clock |-> 0, deadline |-> 0 + timeout, polls |-> 0,
                  report |-> NoReport, returned |-> FALSE, err |-> None]

\* How a round ends once the status query reported r at time t.
Round_DeadlineFirst(h, r, t) ==
    IF r.kind = "error"
    THEN [h EXCEPT !.stage = "done", !.err = r.val]
    ELSE IF t > h.deadline
    THEN [h EXCEPT !.stage = "done", !.err = ERR_TIMEOUT]
    ELSE IF r.val = TASK_STATUS_SUCCESS
    THEN [h EXCEPT !.stage = "done", !.returned = TRUE]
    ELSE IF r.val = TASK_STATUS_FAILED
    THEN [h EXCEPT !.stage = "done", !.err = ERR_SERVER_ERROR]
    ELSE [h EXCEPT !.stage = "sleep"]

\* How a round ends once the status query reported r at time t: an error of
\* the query leaves the call as it is; SUCCESS returns, FAILED raises
\* ServerError, and only then is the deadline looked at.
Round(h, r, t) ==
    IF r.kind = "error"
    THEN [h EXCEPT !.stage = "done", !.err = r.val]
    ELSE IF r.val = TASK_STATUS_SUCCESS
    THEN [h EXCEPT !.stage = "done", !.returned = TRUE]
    ELSE IF r.val = TASK_STATUS_FAILED
    THEN [h EXCEPT !.stage = "done", !.err = ERR_SERVER_ERROR]
    ELSE IF t > h.deadline
    THEN [h EXCEPT !.stage = "done", !.err = ERR_TIMEOUT]
    ELSE [h EXCEPT !.stage = "sleep"]

\* One round of the loop: describe_task_status (which refuses an empty task
\* id before any request and otherwise takes d units of time and reports r),
\* then the tests on the status and the deadline.
PollRound(r, d) ==
    /\ http.stage = "poll"
    /\ http.polls < MaxPolls
    /\ LET q == IF http.rec_task_id = ""
                THEN [kind |-> "error", val |-> ERR_INVALID_PARAM] ELSE r
           t == Tick(http.clock, d)
       IN  http' = Round([http EXCEPT !.polls = @ + 1, !.clock = t, !.report = q],
                         q, t)
    /\ UNCHANGED <<svars, listener, sessions, sig>>

\* time.sleep(interval) takes the interval or d more.
PollSleep(d) ==
    /\ http.stage = "sleep"
    /\ http' = [http EXCEPT !.stage = "poll",
                            !.clock = Tick(http.clock, http.interval + d),
                            !.report = NoReport]
    /\ UNCHANGED <<svars, listener, sessions, sig>>

PollNext ==
    \/ \E r \in Reports, d \in {0, 1} : PollRound(r, d)
    \/ \E d \in {0, 1} : PollSleep(d)

PollSpec == InitPoll /\ [][PollNext]_vars

\* C35: the call returns a status only in a round whose query reported
\* SUCCESS; a round whose query reported FAILED raises ServerError; Timeout is
\* raised only in a round whose query reported a non-terminal status with the
\* deadline passed; the call never ends before its first query, a terminal
\* status is acted on whatever the clock; an error of a query ends the call
\* with that error in the same round.
C35_PollingOutcomes ==
    [][/\ http'.stage = "done" =>
             /\ http'.polls = http.polls + 1
             /\ http'.report.kind \in {"status", "error"}
             /\ http'.returned <=>
                   (http'.report.kind = "status"
                      /\ http'.report.val = TASK_STATUS_SUCCESS)
             /\ http'.returned => http'.err = None
             /\ (http'.report.kind = "status"
                   /\ http'.report.val = TASK_STATUS_FAILED) =>
                      http'.err = ERR_SERVER_ERROR
             /\ http'.err = ERR_TIMEOUT <=>
                   (/\ http'.report.kind = "status"
                    /\ http'.report.val \in {TASK_STATUS_WAITING, TASK_STATUS_RUNNING}
                    /\ http'.clock > http'.deadline)
             /\ http'.report.kind = "error" => http'.err = http'.report.val
       /\ (http'.polls # http.polls /\ http'.stage # "done") =>
             /\ http'.stage = "sleep"
             /\ http'.report.kind = "status"
             /\ http'.report.val \in {TASK_STATUS_WAITING, TASK_STATUS_RUNNING}
             /\ http'.clock <= http'.deadline]_vars

\* With a zero timeout the first query is still made, and its SUCCESS is
\* returned although the deadline has passed.
C35_Witness ==
    /\ http.stage = "done"
    /\ http.deadline = 0 /\ http.clock = 1
    /\ http.polls = 1
    /\ http.report = [kind |-> "status", val |-> TASK_STATUS_SUCCESS]
    /\ http.returned /\ http.err = None

====
